---- MODULE Spec2Model ----
(***************************************************************************)
(* Permission resolution, grant store, permission templates, audit log     *)
(* and system settings/backups of the department portal                    *)
(* (backend/departments, backend/documents/utils.py).                      *)
(*                                                                         *)
(* A permission key is the tuple of its dot-separated segments:            *)
(* 'documents.view_all' is <<"documents", "view_all">>, so "'.' in key" is *)
(* Len(key) > 1 and key.split('.')[0] is key[1].                           *)
(***************************************************************************)
EXTENDS Integers, Sequences, FiniteSets, TLC

VARIABLES
    perms,          \* rows of departments_permission (Permission)
    nextPermId,     \* next fresh Permission.id
    assignments,    \* rows of departments_employeedepartment
    nextAssignId,   \* next fresh EmployeeDepartment.id
    now,            \* the clock (timezone.now(), date.today())
    audit,          \* rows of departments_permission_audit_log, in write order
    templates,      \* rows of departments_permission_template
    nextTplId,      \* next fresh PermissionTemplate.id
    settings,       \* rows of departments_system_settings (at most one)
    backups,        \* rows of departments_system_backup
    nextBackupId,   \* next fresh SystemBackup.id
    pc,             \* position of each concurrent request (SpecConc)
    loc,            \* local variables of each concurrent request (SpecConc)
    documents,      \* rows of documents_document
    nextDocId,      \* next fresh Document.id
    docPermissions, \* rows of documents_documentpermission
    shares,         \* rows of documents_documentshare
    nextShareId,    \* next fresh DocumentShare.id
    activities      \* rows of documents_documentactivity, in write order

\* the tables of the documents app
docvars == <<documents, nextDocId, docPermissions, shares, nextShareId, activities>>

vars == <<perms, nextPermId, assignments, nextAssignId, now, audit, templates,
          nextTplId, settings, backups, nextBackupId, pc, loc, docvars>>

NULL == "NULL"

\* a nullable date column: <<>> is null, <<t>> is the time t
NoDate == <<>>
Date(t) == <<t>>

----------------------------------------------------------------------------
(* Bounds of the model *)

MaxPermId == 2      \* Permission rows ever created (cap on grant_permission)
MaxAppliedId == 4   \* Permission rows ever created (cap on apply_template_to_users)
MaxAssignId == 1    \* EmployeeDepartment rows ever created
MaxTime == 1        \* clock ticks
MaxAudit == 3       \* audit entries ever written
MaxTplId == 2       \* PermissionTemplate rows ever created
MaxBackupId == 2    \* SystemBackup rows ever created

----------------------------------------------------------------------------
(* Principals, departments, keys *)

Anonymous == "anonymous"
Admins == {"admin1", "admin2"}
\* users whose role is 'department_head'
Heads == {"head1"}
Users == Admins \cup Heads \cup {"emp1", "emp2"}

\* mutant: a department head passes the role check
role_head_is_admin(u) == IF u \in Admins \cup Heads THEN "admin" ELSE "employee"

role(u) == IF u \in Admins THEN "admin"
           ELSE IF u \in Heads THEN "department_head"
           ELSE "employee"

is_authenticated(u) == u \in Users

Departments == {"d1", "d2"}

\* Department.parent_department: d2 is a sub-department of d1
parent_department(d) == IF d = "d2" THEN "d1" ELSE NULL

\* keys used as request inputs
KeyViewAll == <<"documents", "view_all">>
KeyDownload == <<"documents", "download">>

\* the admin bypass list of get_user_permissions
ADMIN_PERMISSIONS_utils ==
    { <<"documents", "view_all">>, <<"documents", "create">>, <<"documents", "edit_all">>,
      <<"documents", "delete_all">>, <<"documents", "approve">>, <<"documents", "share">>,
      <<"categories", "view_all">>, <<"categories", "create">>, <<"categories", "edit">>,
      <<"categories", "delete">>, <<"categories", "assign">>, <<"departments", "view_all">>,
      <<"departments", "manage">>, <<"departments", "assign_users">>,
      <<"departments", "view_employees">>, <<"users", "view_all">>, <<"users", "create">>,
      <<"users", "edit">>, <<"users", "deactivate">>, <<"users", "assign_roles">>,
      <<"system", "admin_settings">>, <<"system", "view_analytics">>,
      <<"system", "manage_settings">>, <<"system", "backup">> }

\* the admin bypass list of UserPermissionsView.get
ADMIN_PERMISSIONS_view ==
    { <<"documents", "view_all">>, <<"documents", "create">>, <<"documents", "edit_all">>,
      <<"documents", "delete_all">>, <<"documents", "approve">>, <<"documents", "share">>,
      <<"categories", "view_all">>, <<"categories", "create">>, <<"categories", "edit">>,
      <<"categories", "delete">>, <<"categories", "assign">>, <<"departments", "view_all">>,
      <<"departments", "manage">>, <<"departments", "assign_users">>,
      <<"departments", "view_employees">>, <<"users", "view_all">>, <<"users", "create">>,
      <<"users", "edit">>, <<"users", "deactivate">>, <<"users", "assign_roles">>,
      <<"system", "admin_settings">>, <<"system", "view_analytics">>,
      <<"system", "manage_settings">>, <<"system", "backup">> }

\* available_permissions of get_available_permissions, by category
available_permissions(category) ==
    CASE category = "documents" ->
           { <<"documents", "view_all">>, <<"documents", "create">>,
             <<"documents", "edit_all">>, <<"documents", "delete_all">>,
             <<"documents", "approve">>, <<"documents", "share">> }
      [] category = "categories" ->
           { <<"categories", "view_all">>, <<"categories", "create">>,
             <<"categories", "edit">>, <<"categories", "delete">>,
             <<"categories", "assign">> }
      [] category = "departments" ->
           { <<"departments", "view_all">>, <<"departments", "manage">>,
             <<"departments", "assign_users">>, <<"departments", "view_employees">> }
      [] category = "users" ->
           { <<"users", "view_all">>, <<"users", "create">>, <<"users", "edit">>,
             <<"users", "deactivate">>, <<"users", "assign_roles">> }
      [] category = "system" ->
           { <<"system", "admin_settings">>, <<"system", "view_analytics">>,
             <<"system", "manage_settings">>, <<"system", "backup">> }
      [] OTHER -> {}

PERMISSION_CATEGORIES == {"documents", "categories", "departments", "users", "system"}

\* the key set get_available_permissions enumerates
get_available_permissions == UNION { available_permissions(c) : c \in PERMISSION_CATEGORIES }

\* PermissionForm.PERMISSION_CHOICES: the keys the Django admin form accepts
PERMISSION_CHOICES ==
    get_available_permissions \cup
    { <<"documents", "download">>, <<"documents", "view_stats">>,
      <<"departments", "manage_budget">>, <<"users", "manage_permissions">>,
      <<"system", "view_logs">>, <<"system", "manage_templates">> }

\* permission_key.split('.')[0] if '.' in permission_key else 'system'
permission_category(key) == IF Len(key) > 1 THEN key[1] ELSE "system"

----------------------------------------------------------------------------
(* Permission rows and the resolver (documents/utils.py) *)

\* Permission.is_expired
is_expired(p) == IF p.expires_at # NoDate THEN now > p.expires_at[1] ELSE FALSE

\* mutant: ended assignments count too
user_departments_any_date(user) ==
    { a.department : a \in { x \in assignments : x.employee = user } }

\* user.department_assignments.filter(end_date__isnull=True).values_list('department_id')
user_departments(user) ==
    { a.department : a \in { x \in assignments : x.employee = user /\ x.end_date = NoDate } }

\* Permission.objects.filter(entity_type='user', entity_id=user.id, is_active=True)
direct_permissions(user) ==
    { p \in perms : p.entity_type = "user" /\ p.entity_id = user /\ p.is_active }

\* Permission.objects.filter(entity_type='department', entity_id__in=user_departments, is_active=True)
department_permissions(user) ==
    { p \in perms : p.entity_type = "department" /\ p.entity_id \in user_departments(user)
                    /\ p.is_active }

\* mutant: the department check is left out
user_has_permission_direct_only(user, permission_key) ==
    IF ~is_authenticated(user) THEN FALSE
    ELSE IF role(user) = "admin" THEN TRUE
    ELSE \E p \in direct_permissions(user) : p.permission = permission_key

user_has_permission(user, permission_key) ==
    IF ~is_authenticated(user) THEN FALSE
    ELSE IF role(user) = "admin" THEN TRUE
    ELSE IF \E p \in direct_permissions(user) : p.permission = permission_key THEN TRUE
    ELSE \E p \in department_permissions(user) : p.permission = permission_key

\* mutant: no role bypass, an admin is resolved from the stored rows
get_user_permissions_no_bypass(user) ==
    IF ~is_authenticated(user) THEN {}
    ELSE { p.permission : p \in direct_permissions(user) }
         \cup { p.permission : p \in department_permissions(user) }

get_user_permissions(user) ==
    IF ~is_authenticated(user) THEN {}
    ELSE IF role(user) = "admin" THEN ADMIN_PERMISSIONS_utils
    ELSE { p.permission : p \in direct_permissions(user) }
         \cup { p.permission : p \in department_permissions(user) }

\* UserPermissionsView.get (IsAuthenticated: an anonymous request gets no list)
UserPermissionsView(user) ==
    IF ~is_authenticated(user) THEN {}
    ELSE IF role(user) = "admin" THEN ADMIN_PERMISSIONS_view
    ELSE { p.permission : p \in direct_permissions(user) }
         \cup { p.permission : p \in department_permissions(user) }

----------------------------------------------------------------------------
(* Audit log *)

\* PermissionAuditLog.objects.create(...)
AuditEntry(action, permission, entity_type, entity_id, performed_by) ==
    [action |-> action, permission |-> permission, entity_type |-> entity_type,
     entity_id |-> entity_id, performed_by |-> performed_by]

\* mutant: the entry is written twice
PermissionAuditLog_create_twice(log, entry) == Append(Append(log, entry), entry)

\* the audit table after a PermissionAuditLog.objects.create that succeeds
PermissionAuditLog_create(log, entry) == Append(log, entry)

\* PermissionAuditLog.ACTION_CHOICES
ACTION_CHOICES == {"grant", "revoke", "template_apply", "template_create"}

\* the table without its i-th row
RemoveAt(log, i) == [j \in 1..(Len(log) - 1) |-> IF j < i THEN log[j] ELSE log[j + 1]]

\* PermissionAuditLogAdmin: the delete view of a ModelAdmin
PermissionAuditLogAdmin_delete(i) ==
    /\ i \in 1..Len(audit)
    /\ audit' = RemoveAt(audit, i)
    /\ UNCHANGED <<docvars, perms, nextPermId, assignments, nextAssignId, now, templates, nextTplId,
                   settings, backups, nextBackupId, pc, loc>>

\* PermissionAuditLogAdmin: the change form (fieldset Action Details: action)
PermissionAuditLogAdmin_change(i, action) ==
    /\ i \in 1..Len(audit)
    /\ action \in ACTION_CHOICES
    /\ audit' = [audit EXCEPT ![i].action = action]
    /\ UNCHANGED <<docvars, perms, nextPermId, assignments, nextAssignId, now, templates, nextTplId,
                   settings, backups, nextBackupId, pc, loc>>

\* a Response: its HTTP status and the 'id' of its body (0 when it has none)
Response(status, id) == [status |-> status, id |-> id]

----------------------------------------------------------------------------
(* Grant store operations (departments/views.py) *)

Triple(entity_type, entity_id, key) ==
    [entity_type |-> entity_type, entity_id |-> entity_id, permission |-> key]

TripleOf(p) == Triple(p.entity_type, p.entity_id, p.permission)

NoNotes == [kind |-> "none", template |-> NULL]

NewPermission(id, entity_type, entity_id, key, granted_by, notes) ==
    [id |-> id, entity_type |-> entity_type, entity_id |-> entity_id, permission |-> key,
     permission_category |-> permission_category(key), granted_by |-> granted_by,
     is_active |-> TRUE, expires_at |-> NoDate, notes |-> notes]

\* rows matching the lookup of Permission.objects.get_or_create
LookupPermission(entity_type, entity_id, key) ==
    { p \in perms : p.entity_type = entity_type /\ p.entity_id = entity_id
                    /\ p.permission = key }

\* mutant: the existing row is not reactivated
UpdateExisting_keep_flag(p, actor) == [p EXCEPT !.granted_by = actor]

\* the row grant_permission leaves for an existing match: is_active = True,
\* granted_by = request.user, save()
UpdateExisting(p, actor) == [p EXCEPT !.is_active = TRUE, !.granted_by = actor]

\* the rows after Permission.objects.get_or_create and the update of an existing row
GrantUpsert(actor, entity_type, entity_id, key) ==
    LET found == LookupPermission(entity_type, entity_id, key) IN
    IF found # {}
    THEN LET p == CHOOSE x \in found : TRUE IN
         (perms \ {p}) \cup {UpdateExisting(p, actor)}
    ELSE perms \cup {NewPermission(nextPermId, entity_type, entity_id, key, actor, NoNotes)}

\* the response of grant_permission
grant_permission_response(actor, entity_type, entity_id, key, auditOk) ==
    LET found == LookupPermission(entity_type, entity_id, key) IN
    IF role(actor) # "admin" THEN Response(403, 0)
    ELSE IF ~auditOk THEN Response(500, 0)
    ELSE Response(200, IF found = {} THEN nextPermId ELSE (CHOOSE x \in found : TRUE).id)

grant_permission(actor, entity_type, entity_id, key, auditOk) ==
    /\ UNCHANGED <<docvars, assignments, nextAssignId, now, templates, nextTplId, settings,
                   backups, nextBackupId, pc, loc>>
    /\ IF role(actor) # "admin"
       THEN UNCHANGED <<perms, nextPermId, audit>>
       ELSE LET created == LookupPermission(entity_type, entity_id, key) = {} IN
            /\ created => nextPermId <= MaxPermId
            /\ Len(audit) < MaxAudit
            /\ perms' = GrantUpsert(actor, entity_type, entity_id, key)
            /\ nextPermId' = IF created THEN nextPermId + 1 ELSE nextPermId
            /\ audit' = IF auditOk
                        THEN PermissionAuditLog_create(audit,
                                 AuditEntry("grant", key, entity_type, entity_id, actor))
                        ELSE audit

\* mutant: the row is not deleted
DeletePermission_none(p) == perms

\* permission.delete()
DeletePermission(p) == perms \ {p}

\* the response of revoke_permission
revoke_permission_response(actor, permission_id, auditOk) ==
    IF role(actor) # "admin" THEN Response(403, 0)
    ELSE IF { p \in perms : p.id = permission_id } = {} THEN Response(404, 0)
    ELSE IF ~auditOk THEN Response(500, 0)
    ELSE Response(200, 0)

revoke_permission(actor, permission_id, auditOk) ==
    /\ UNCHANGED <<docvars, assignments, nextAssignId, now, templates, nextTplId, settings,
                   backups, nextBackupId, nextPermId, pc, loc>>
    /\ IF revoke_permission_response(actor, permission_id, auditOk).status # 200
       THEN UNCHANGED <<perms, audit>>
       ELSE LET p == CHOOSE x \in perms : x.id = permission_id IN
            /\ Len(audit) < MaxAudit
            /\ audit' = PermissionAuditLog_create(audit,
                              AuditEntry("revoke", p.permission, p.entity_type,
                                         p.entity_id, actor))
            /\ perms' = DeletePermission(p)

\* PermissionAdmin change form (fieldset Settings: is_active, expires_at) and
\* PermissionAdmin.save_model
PermissionAdmin_save_model(permission_id, is_active, expires_at) ==
    /\ \E p \in perms :
         /\ p.id = permission_id
         /\ p.permission \in PERMISSION_CHOICES
         /\ perms' = (perms \ {p}) \cup
                { [p EXCEPT !.is_active = is_active, !.expires_at = expires_at,
                            !.permission_category = p.permission[1]] }
    /\ UNCHANGED <<docvars, nextPermId, assignments, nextAssignId, now, audit, templates, nextTplId,
                   settings, backups, nextBackupId, pc, loc>>

----------------------------------------------------------------------------
(* Department assignments (departments/views.py) *)

\* UniqueConstraint unique_primary_department
PrimaryConflict(employee, is_primary) ==
    is_primary /\ \E a \in assignments :
                     a.employee = employee /\ a.is_primary /\ a.end_date = NoDate

\* the response of EmployeeAssignmentCreateView
EmployeeAssignmentCreateView_response(actor, employee, is_primary) ==
    IF role(actor) # "admin" THEN Response(403, 0)
    ELSE IF PrimaryConflict(employee, is_primary) THEN Response(500, 0)
    ELSE Response(201, nextAssignId)

EmployeeAssignmentCreateView(actor, employee, department, is_primary) ==
    /\ UNCHANGED <<docvars, perms, nextPermId, now, audit, templates, nextTplId, settings, backups,
                   nextBackupId, pc, loc>>
    /\ IF EmployeeAssignmentCreateView_response(actor, employee, is_primary).status # 201
       THEN UNCHANGED <<assignments, nextAssignId>>
       ELSE /\ nextAssignId <= MaxAssignId
            /\ assignments' = assignments \cup
                   { [id |-> nextAssignId, employee |-> employee, department |-> department,
                      end_date |-> NoDate, is_primary |-> is_primary] }
            /\ nextAssignId' = nextAssignId + 1

\* assignment.end_date = date.today(); assignment.save()
EndAssignment(a) == (assignments \ {a}) \cup { [a EXCEPT !.end_date = Date(now)] }

\* the response of end_assignment
end_assignment_response(actor, pk) ==
    IF role(actor) # "admin" THEN Response(403, 0)
    ELSE IF { a \in assignments : a.id = pk /\ a.end_date = NoDate } = {}
    THEN Response(404, 0)
    ELSE Response(200, 0)

end_assignment(actor, pk) ==
    /\ UNCHANGED <<docvars, perms, nextPermId, nextAssignId, now, audit, templates, nextTplId,
                   settings, backups, nextBackupId, pc, loc>>
    /\ IF end_assignment_response(actor, pk).status # 200
       THEN UNCHANGED assignments
       ELSE LET a == CHOOSE x \in assignments : x.id = pk /\ x.end_date = NoDate IN
            assignments' = EndAssignment(a)

\* the passage of time
Tick ==
    /\ now < MaxTime
    /\ now' = now + 1
    /\ UNCHANGED <<docvars, perms, nextPermId, assignments, nextAssignId, audit, templates,
                   nextTplId, settings, backups, nextBackupId, pc, loc>>

----------------------------------------------------------------------------
(* Permission templates (departments/views.py) *)

\* names a template can be given; CharField(unique=True)
TemplateNames == {"t1", "t10"}

\* f'template:{template.name}'
TemplateLabel(name) == <<"template:" \o name>>

\* needle is a substring of hay, for the names above
NameContains(hay, needle) == hay = needle \/ (hay = "t10" /\ needle = "t1")

\* notes = f'Applied from template: {template.name}'
AppliedNotes(name) == [kind |-> "applied", template |-> name]

\* notes = f'Updated by template: {template.name}'
UpdatedNotes(name) == [kind |-> "updated", template |-> name]

\* notes__icontains = f'template: {template.name}'
notes_icontains_template(notes, name) ==
    notes.kind \in {"applied", "updated"} /\ NameContains(notes.template, name)

\* a value of request.data that may be absent: <<>> or <<v>>
Given(field, default) == IF field = <<>> THEN default ELSE field[1]

TemplateById(template_id) == { t \in templates : t.id = template_id }

NameTaken(name, except_id) == \E t \in templates : t.name = name /\ t.id # except_id

NewTemplate(id, name, description, permissions, created_by) ==
    [id |-> id, name |-> name, description |-> description, permissions |-> permissions,
     created_by |-> created_by, is_active |-> TRUE, usage_count |-> 0]

\* the response of create_permission_template
create_permission_template_response(actor, name, description, permissions, auditOk) ==
    IF role(actor) # "admin" THEN Response(403, 0)
    ELSE IF name = "" \/ description = "" THEN Response(400, 0)
    ELSE IF NameTaken(name, 0) THEN Response(500, 0)
    ELSE IF ~auditOk THEN Response(500, 0)
    ELSE Response(200, nextTplId)

create_permission_template(actor, name, description, permissions, auditOk) ==
    /\ UNCHANGED <<docvars, perms, nextPermId, assignments, nextAssignId, now, settings, backups,
                   nextBackupId, pc, loc>>
    /\ IF role(actor) # "admin" \/ name = "" \/ description = "" \/ NameTaken(name, 0)
       THEN UNCHANGED <<templates, nextTplId, audit>>
       ELSE /\ nextTplId <= MaxTplId
            /\ Len(audit) < MaxAudit
            /\ templates' = templates \cup
                   {NewTemplate(nextTplId, name, description, permissions, actor)}
            /\ nextTplId' = nextTplId + 1
            /\ audit' = IF auditOk
                        THEN PermissionAuditLog_create(audit,
                                 AuditEntry("template_create", TemplateLabel(name),
                                            "template", ToString(nextTplId), actor))
                        ELSE audit

\* the response of update_permission_template
update_permission_template_response(actor, template_id, name, description, permissions, auditOk) ==
    IF role(actor) # "admin" THEN Response(403, 0)
    ELSE IF TemplateById(template_id) = {} THEN Response(404, 0)
    ELSE LET t == CHOOSE x \in TemplateById(template_id) : TRUE IN
         IF NameTaken(Given(name, t.name), template_id) THEN Response(500, 0)
         ELSE IF ~auditOk THEN Response(500, 0)
         ELSE Response(200, template_id)

update_permission_template(actor, template_id, name, description, permissions, auditOk) ==
    /\ UNCHANGED <<docvars, perms, nextPermId, assignments, nextAssignId, now, nextTplId, settings,
                   backups, nextBackupId, pc, loc>>
    /\ IF role(actor) # "admin" \/ TemplateById(template_id) = {}
       THEN UNCHANGED <<templates, audit>>
       ELSE LET t == CHOOSE x \in TemplateById(template_id) : TRUE
                new_name == Given(name, t.name)
            IN  IF NameTaken(new_name, template_id)
                THEN UNCHANGED <<templates, audit>>
                ELSE /\ Len(audit) < MaxAudit
                     /\ templates' = (templates \ {t}) \cup
                            { [t EXCEPT !.name = new_name,
                                        !.description = Given(description, t.description),
                                        !.permissions = Given(permissions, t.permissions)] }
                     /\ audit' = IF auditOk
                                 THEN PermissionAuditLog_create(audit,
                                          AuditEntry("template_update",
                                                     TemplateLabel(new_name), "template",
                                                     ToString(t.id), actor))
                                 ELSE audit

\* the response of delete_permission_template
delete_permission_template_response(actor, template_id, auditOk) ==
    IF role(actor) # "admin" THEN Response(403, 0)
    ELSE IF TemplateById(template_id) = {} THEN Response(404, 0)
    ELSE IF (CHOOSE x \in TemplateById(template_id) : TRUE).usage_count > 0
    THEN Response(400, 0)
    ELSE IF ~auditOk THEN Response(500, 0)
    ELSE Response(200, 0)

delete_permission_template(actor, template_id, auditOk) ==
    /\ UNCHANGED <<docvars, perms, nextPermId, assignments, nextAssignId, now, nextTplId, settings,
                   backups, nextBackupId, pc, loc>>
    /\ IF delete_permission_template_response(actor, template_id, auditOk).status # 200
       THEN UNCHANGED <<templates, audit>>
       ELSE LET t == CHOOSE x \in TemplateById(template_id) : TRUE IN
            /\ Len(audit) < MaxAudit
            /\ audit' = PermissionAuditLog_create(audit,
                              AuditEntry("template_delete", TemplateLabel(t.name),
                                         "template", ToString(t.id), actor))
            /\ templates' = templates \ {t}

\* mutant: a skipped key is not counted
ApplyKey_skip_uncounted(s, actor, user, key, overwrite, tname) ==
    LET existing == { p \in s.perms : p.entity_type = "user" /\ p.entity_id = user
                                      /\ p.permission = key /\ p.is_active }
    IN  IF existing # {} /\ ~overwrite THEN s
        ELSE [s EXCEPT !.perms = (@ \ existing)
                           \cup { NewPermission(s.nextPermId, "user", user, key, actor,
                                                [kind |-> "applied", template |-> tname]) },
                       !.nextPermId = @ + 1,
                       !.permissions_created = @ + 1]

\* apply_template_to_users: the body of the loop over template.permissions for one
\* key. s carries the grant rows, the next row id, permissions_created,
\* skipped_count and whether Permission.objects.create raised IntegrityError.
ApplyKey(s, actor, user, key, overwrite, tname) ==
    LET existing == { p \in s.perms : p.entity_type = "user" /\ p.entity_id = user
                                      /\ p.permission = key /\ p.is_active }
        clash == \E p \in s.perms : TripleOf(p) = Triple("user", user, key)
    IN  IF s.raised THEN s
        ELSE IF existing # {} /\ ~overwrite
        THEN [s EXCEPT !.skipped_count = @ + 1]
        ELSE IF existing # {}
        THEN LET p == CHOOSE x \in existing : TRUE IN
             [s EXCEPT !.perms = (@ \ {p}) \cup
                           { [p EXCEPT !.granted_by = actor, !.notes = UpdatedNotes(tname)] },
                       !.permissions_created = @ + 1]
        ELSE IF clash
        THEN [s EXCEPT !.raised = TRUE]
        ELSE [s EXCEPT !.perms = @ \cup { NewPermission(s.nextPermId, "user", user, key,
                                                        actor, AppliedNotes(tname)) },
                       !.nextPermId = @ + 1,
                       !.permissions_created = @ + 1]

RECURSIVE ApplyKeys(_, _, _, _, _, _)
ApplyKeys(s, actor, user, keys, overwrite, tname) ==
    IF keys = <<>> THEN s
    ELSE ApplyKeys(ApplyKey(s, actor, user, Head(keys), overwrite, tname),
                   actor, user, Tail(keys), overwrite, tname)

\* apply_template_to_users: the body of the loop over users for one user. r carries
\* the grant rows, the next row id, the audit table and the counters of the response.
ApplyUser(r, actor, user, t, overwrite, auditOk) ==
    LET s == ApplyKeys([perms |-> r.perms, nextPermId |-> r.nextPermId,
                        permissions_created |-> 0, skipped_count |-> r.skipped_count,
                        raised |-> FALSE],
                       actor, user, t.permissions, overwrite, t.name)
        r1 == [r EXCEPT !.perms = s.perms, !.nextPermId = s.nextPermId,
                        !.skipped_count = s.skipped_count]
    IN  IF s.raised THEN [r1 EXCEPT !.errors = @ + 1]
        ELSE IF s.permissions_created = 0 THEN r1
        ELSE IF ~auditOk
        THEN [r1 EXCEPT !.applied_count = @ + 1, !.errors = @ + 1]
        ELSE [r1 EXCEPT !.applied_count = @ + 1,
                        !.audit = PermissionAuditLog_create(@,
                                      AuditEntry("template_apply", TemplateLabel(t.name),
                                                 "user", user, actor))]

RECURSIVE ApplyUsers(_, _, _, _, _, _)
ApplyUsers(r, actor, users, t, overwrite, auditOk) ==
    IF users = <<>> THEN r
    ELSE ApplyUsers(ApplyUser(r, actor, Head(users), t, overwrite, auditOk),
                    actor, Tail(users), t, overwrite, auditOk)

\* Permission.objects.filter(notes__icontains=...).values('entity_id').distinct().count()
usage_count(rows, name) ==
    Cardinality({ p.entity_id : p \in { q \in rows : notes_icontains_template(q.notes, name) } })

\* what the loops of apply_template_to_users leave
apply_template_result(actor, t, user_ids, overwrite, auditOk) ==
    ApplyUsers([perms |-> perms, nextPermId |-> nextPermId, audit |-> audit,
                applied_count |-> 0, skipped_count |-> 0, errors |-> 0],
               actor, user_ids, t, overwrite, auditOk)

\* the status of the response of apply_template_to_users
apply_template_to_users_status(actor, template_id, user_ids) ==
    IF role(actor) # "admin" THEN 403
    ELSE IF TemplateById(template_id) = {} THEN 404
    ELSE IF user_ids = <<>> THEN 400
    ELSE IF Cardinality({ user_ids[i] : i \in 1..Len(user_ids) } \cap Users) # Len(user_ids)
    THEN 400
    ELSE 200

\* the body of the response of apply_template_to_users
apply_template_to_users_response(actor, template_id, user_ids, overwrite, auditOk) ==
    LET status == apply_template_to_users_status(actor, template_id, user_ids) IN
    IF status # 200
    THEN [status |-> status, applied_count |-> 0, skipped_count |-> 0, errors |-> 0]
    ELSE LET t == CHOOSE x \in TemplateById(template_id) : TRUE
             r == apply_template_result(actor, t, user_ids, overwrite, auditOk)
         IN  [status |-> 200, applied_count |-> r.applied_count,
              skipped_count |-> r.skipped_count, errors |-> r.errors]

apply_template_to_users(actor, template_id, user_ids, overwrite, auditOk) ==
    /\ UNCHANGED <<docvars, assignments, nextAssignId, now, nextTplId, settings, backups,
                   nextBackupId, pc, loc>>
    /\ IF apply_template_to_users_status(actor, template_id, user_ids) # 200
       THEN UNCHANGED <<perms, nextPermId, audit, templates>>
       ELSE LET t == CHOOSE x \in TemplateById(template_id) : TRUE
                r == apply_template_result(actor, t, user_ids, overwrite, auditOk)
            IN  /\ r.nextPermId <= MaxAppliedId + 1
                /\ Len(r.audit) <= MaxAudit
                /\ perms' = r.perms
                /\ nextPermId' = r.nextPermId
                /\ audit' = r.audit
                /\ templates' = (templates \ {t}) \cup
                       { [t EXCEPT !.usage_count = usage_count(r.perms, t.name)] }

----------------------------------------------------------------------------
(* System settings and backups (departments/views.py) *)

\* SystemSettings.objects.create(updated_by=...): the field defaults
DefaultSettings(updated_by) ==
    [id |-> 1, site_name |-> "Department Portal", max_file_size |-> 50,
     updated_by |-> updated_by]

\* User.objects.filter(role='admin').first()
FirstAdmin == "admin1"

\* SystemSettings.get_settings: the table after the call
get_settings ==
    IF settings # {} THEN settings
    ELSE {DefaultSettings(FirstAdmin)}

\* SystemSettings.clean
clean(s) == s.max_file_size >= 1 /\ s.max_file_size <= 1000

\* the row update_system_settings builds from request.data
UpdatedSettings(s, actor, site_name, max_file_size) ==
    [s EXCEPT !.site_name = Given(site_name, s.site_name),
              !.max_file_size = Given(max_file_size, s.max_file_size),
              !.updated_by = actor]

\* the response of update_system_settings
update_system_settings_response(actor, site_name, max_file_size, auditOk) ==
    IF role(actor) # "admin" THEN Response(403, 0)
    ELSE LET s == CHOOSE x \in get_settings : TRUE IN
         IF ~clean(UpdatedSettings(s, actor, site_name, max_file_size))
         THEN Response(500, 0)
         ELSE IF ~auditOk THEN Response(500, 0)
         ELSE Response(200, s.id)

update_system_settings(actor, site_name, max_file_size, auditOk) ==
    /\ UNCHANGED <<docvars, perms, nextPermId, assignments, nextAssignId, now, templates,
                   nextTplId, backups, nextBackupId, pc, loc>>
    /\ IF role(actor) # "admin"
       THEN UNCHANGED <<settings, audit>>
       ELSE LET s == CHOOSE x \in get_settings : TRUE
                new == UpdatedSettings(s, actor, site_name, max_file_size)
            IN  IF ~clean(new)
                THEN settings' = get_settings /\ UNCHANGED audit
                ELSE /\ Len(audit) < MaxAudit
                     /\ settings' = {new}
                     /\ audit' = IF auditOk
                                 THEN PermissionAuditLog_create(audit,
                                          AuditEntry("settings_update",
                                                     <<"system", "manage_settings">>,
                                                     "system", ToString(s.id), actor))
                                 ELSE audit

\* the response of create_system_backup; ioOk: the archive was written
create_system_backup_response(actor, ioOk) ==
    IF role(actor) # "admin" THEN Response(403, 0)
    ELSE IF ~ioOk THEN Response(500, 0)
    ELSE Response(200, nextBackupId)

create_system_backup(actor, name, ioOk) ==
    /\ UNCHANGED <<docvars, perms, nextPermId, assignments, nextAssignId, now, audit, templates,
                   nextTplId, settings, pc, loc>>
    /\ IF role(actor) # "admin"
       THEN UNCHANGED <<backups, nextBackupId>>
       ELSE /\ nextBackupId <= MaxBackupId
            /\ backups' = backups \cup
                   { [id |-> nextBackupId, name |-> name, backup_type |-> "manual",
                      status |-> IF ioOk THEN "completed" ELSE "failed",
                      created_by |-> actor] }
            /\ nextBackupId' = nextBackupId + 1

\* the response of delete_system_backup
delete_system_backup_response(actor, backup_id, auditOk) ==
    IF role(actor) # "admin" THEN Response(403, 0)
    ELSE IF { b \in backups : b.id = backup_id } = {} THEN Response(404, 0)
    ELSE IF ~auditOk THEN Response(500, 0)
    ELSE Response(200, 0)

delete_system_backup(actor, backup_id, auditOk) ==
    /\ UNCHANGED <<docvars, perms, nextPermId, assignments, nextAssignId, now, templates,
                   nextTplId, settings, nextBackupId, pc, loc>>
    /\ IF delete_system_backup_response(actor, backup_id, auditOk).status # 200
       THEN UNCHANGED <<backups, audit>>
       ELSE LET b == CHOOSE x \in backups : x.id = backup_id IN
            /\ Len(audit) < MaxAudit
            /\ audit' = PermissionAuditLog_create(audit,
                              AuditEntry("backup_delete", <<"system", "backup">>,
                                         "backup", ToString(b.id), actor))
            /\ backups' = backups \ {b}

----------------------------------------------------------------------------
(* Two overlapping requests (departments/views.py). Each database query of *)
(* a handler is one step; pc[i] is the position of request i and loc[i]    *)
(* holds its local variables.                                              *)

Procs == {1, 2}

\* request.user of request i
RequestUser(i) == IF i = 1 THEN "admin1" ELSE "admin2"

\* the triple both requests grant
ConcEntity == "emp1"
ConcKey == KeyViewAll

NoLocals ==
    [kind |-> "none", overwrite |-> FALSE, obj |-> {}, template |-> {}, status |-> 0,
     applied_count |-> 0, skipped_count |-> 0, errors |-> 0, permission_id |-> 0]

Goto(i, label, locals) ==
    /\ pc' = [pc EXCEPT ![i] = label]
    /\ loc' = [loc EXCEPT ![i] = locals]

\* grant_permission: the role check and the reading of request.data
grant_permission_begin(i) ==
    /\ pc[i] = "idle"
    /\ IF role(RequestUser(i)) # "admin"
       THEN Goto(i, "done", [NoLocals EXCEPT !.kind = "grant", !.status = 403])
       ELSE Goto(i, "get_or_create_get", [NoLocals EXCEPT !.kind = "grant"])
    /\ UNCHANGED <<docvars, perms, nextPermId, assignments, nextAssignId, now, audit, templates,
                   nextTplId, settings, backups, nextBackupId>>

\* Permission.objects.get_or_create: the lookup
get_or_create_get(i) ==
    /\ pc[i] = "get_or_create_get"
    /\ LET found == LookupPermission("user", ConcEntity, ConcKey) IN
       IF found # {}
       THEN Goto(i, "update_existing", [loc[i] EXCEPT !.obj = found])
       ELSE Goto(i, "get_or_create_create", loc[i])
    /\ UNCHANGED <<docvars, perms, nextPermId, assignments, nextAssignId, now, audit, templates,
                   nextTplId, settings, backups, nextBackupId>>

\* Permission.objects.get_or_create: the insert; on IntegrityError (unique_together)
\* the row is fetched again and created is False
get_or_create_create(i) ==
    /\ pc[i] = "get_or_create_create"
    /\ LET found == LookupPermission("user", ConcEntity, ConcKey) IN
       IF found # {}
       THEN /\ Goto(i, "update_existing", [loc[i] EXCEPT !.obj = found])
            /\ UNCHANGED <<perms, nextPermId>>
       ELSE LET p == NewPermission(nextPermId, "user", ConcEntity, ConcKey,
                                   RequestUser(i), NoNotes) IN
            /\ nextPermId <= MaxPermId
            /\ perms' = perms \cup {p}
            /\ nextPermId' = nextPermId + 1
            /\ Goto(i, "grant_audit", [loc[i] EXCEPT !.obj = {p}])
    /\ UNCHANGED <<docvars, assignments, nextAssignId, now, audit, templates, nextTplId, settings,
                   backups, nextBackupId>>

\* Model.save() of a loaded row: every field of the row with that id is overwritten
SaveRow(obj) == { p \in perms : p.id # obj.id } \cup {obj}

\* grant_permission: if not created: is_active = True, granted_by, save()
update_existing(i) ==
    /\ pc[i] = "update_existing"
    /\ LET obj == UpdateExisting(CHOOSE x \in loc[i].obj : TRUE, RequestUser(i)) IN
       /\ perms' = SaveRow(obj)
       /\ Goto(i, "grant_audit", [loc[i] EXCEPT !.obj = {obj}])
    /\ UNCHANGED <<docvars, nextPermId, assignments, nextAssignId, now, audit, templates, nextTplId,
                   settings, backups, nextBackupId>>

\* grant_permission: the audit entry and the response
grant_audit(i) ==
    /\ pc[i] = "grant_audit"
    /\ Len(audit) < MaxAudit
    /\ audit' = PermissionAuditLog_create(audit,
                    AuditEntry("grant", ConcKey, "user", ConcEntity, RequestUser(i)))
    /\ Goto(i, "done", [loc[i] EXCEPT !.status = 200])
    /\ UNCHANGED <<docvars, perms, nextPermId, assignments, nextAssignId, now, templates, nextTplId,
                   settings, backups, nextBackupId>>

\* apply_template_to_users for user_ids = [ConcEntity]: the role check and
\* PermissionTemplate.objects.get
apply_begin(i, template_id, overwrite) ==
    /\ pc[i] = "idle"
    /\ LET status == apply_template_to_users_status(RequestUser(i), template_id,
                                                    <<ConcEntity>>) IN
       IF status # 200
       THEN Goto(i, "done", [NoLocals EXCEPT !.kind = "apply", !.status = status])
       ELSE Goto(i, "apply_filter",
                 [NoLocals EXCEPT !.kind = "apply", !.overwrite = overwrite,
                                  !.template = TemplateById(template_id)])
    /\ UNCHANGED <<docvars, perms, nextPermId, assignments, nextAssignId, now, audit, templates,
                   nextTplId, settings, backups, nextBackupId>>

\* the key the loaded template of request i grants
AppliedKey(i) == (CHOOSE t \in loc[i].template : TRUE).permissions[1]

\* Permission.objects.filter(..., is_active=True).first()
apply_filter(i) ==
    /\ pc[i] = "apply_filter"
    /\ LET existing == { p \in perms : p.entity_type = "user" /\ p.entity_id = ConcEntity
                                       /\ p.permission = AppliedKey(i) /\ p.is_active } IN
       IF existing # {} /\ ~loc[i].overwrite
       THEN Goto(i, "apply_usage", [loc[i] EXCEPT !.skipped_count = @ + 1])
       ELSE IF existing # {}
       THEN Goto(i, "apply_update", [loc[i] EXCEPT !.obj = existing])
       ELSE Goto(i, "apply_create", loc[i])
    /\ UNCHANGED <<docvars, perms, nextPermId, assignments, nextAssignId, now, audit, templates,
                   nextTplId, settings, backups, nextBackupId>>

\* Permission.objects.create; an IntegrityError is caught by the except of the user loop
apply_create(i) ==
    /\ pc[i] = "apply_create"
    /\ LET t == CHOOSE x \in loc[i].template : TRUE IN
       IF LookupPermission("user", ConcEntity, AppliedKey(i)) # {}
       THEN /\ Goto(i, "apply_usage", [loc[i] EXCEPT !.errors = @ + 1])
            /\ UNCHANGED <<perms, nextPermId>>
       ELSE /\ nextPermId <= MaxPermId
            /\ perms' = perms \cup { NewPermission(nextPermId, "user", ConcEntity,
                                                   AppliedKey(i), RequestUser(i),
                                                   AppliedNotes(t.name)) }
            /\ nextPermId' = nextPermId + 1
            /\ Goto(i, "apply_audit", loc[i])
    /\ UNCHANGED <<docvars, assignments, nextAssignId, now, audit, templates, nextTplId, settings,
                   backups, nextBackupId>>

\* existing_permission.granted_by, .notes, save()
apply_update(i) ==
    /\ pc[i] = "apply_update"
    /\ LET t == CHOOSE x \in loc[i].template : TRUE
           p == CHOOSE x \in loc[i].obj : TRUE
           obj == [p EXCEPT !.granted_by = RequestUser(i), !.notes = UpdatedNotes(t.name)]
       IN  /\ perms' = SaveRow(obj)
           /\ Goto(i, "apply_audit", [loc[i] EXCEPT !.obj = {obj}])
    /\ UNCHANGED <<docvars, nextPermId, assignments, nextAssignId, now, audit, templates, nextTplId,
                   settings, backups, nextBackupId>>

\* applied_count += 1 and the template_apply audit entry
apply_audit(i) ==
    /\ pc[i] = "apply_audit"
    /\ Len(audit) < MaxAudit
    /\ LET t == CHOOSE x \in loc[i].template : TRUE IN
       audit' = PermissionAuditLog_create(audit,
                    AuditEntry("template_apply", TemplateLabel(t.name), "user",
                               ConcEntity, RequestUser(i)))
    /\ Goto(i, "apply_usage", [loc[i] EXCEPT !.applied_count = @ + 1])
    /\ UNCHANGED <<docvars, perms, nextPermId, assignments, nextAssignId, now, templates, nextTplId,
                   settings, backups, nextBackupId>>

\* template.usage_count = ...; template.save(); the response
apply_usage(i) ==
    /\ pc[i] = "apply_usage"
    /\ LET t == CHOOSE x \in loc[i].template : TRUE IN
       templates' = { x \in templates : x.id # t.id } \cup
                    { [t EXCEPT !.usage_count = usage_count(perms, t.name)] }
    /\ Goto(i, "done", [loc[i] EXCEPT !.status = 200])
    /\ UNCHANGED <<docvars, perms, nextPermId, assignments, nextAssignId, now, audit, nextTplId,
                   settings, backups, nextBackupId>>

----------------------------------------------------------------------------
(* Spec: the grant store and the resolver. Requests are served one at a    *)
(* time by an administrator and the audit sink accepts every write.        *)

Init ==
    /\ perms = {}
    /\ nextPermId = 1
    /\ assignments = {}
    /\ nextAssignId = 1
    /\ now = 0
    /\ audit = <<>>
    /\ templates = {}
    /\ nextTplId = 1
    /\ settings = {}
    /\ backups = {}
    /\ nextBackupId = 1
    /\ pc = <<>>
    /\ loc = <<>>
    /\ documents = {}
    /\ nextDocId = 1
    /\ docPermissions = {}
    /\ shares = {}
    /\ nextShareId = 1
    /\ activities = <<>>

Actors == {"admin1"}
GrantRequests == { <<"user", "emp1", KeyViewAll>>, <<"department", "d1", KeyViewAll>>,
                   <<"user", "admin1", KeyViewAll>> }
Assignees == {"emp1", "admin1"}
PermIds == 1..MaxPermId
AssignIds == 1..MaxAssignId

Next ==
    \/ \E actor \in Actors, g \in GrantRequests :
         grant_permission(actor, g[1], g[2], g[3], TRUE)
    \/ \E actor \in Actors, id \in PermIds : revoke_permission(actor, id, TRUE)
    \/ \E id \in PermIds, act \in BOOLEAN : PermissionAdmin_save_model(id, act, NoDate)
    \/ \E actor \in Actors, e \in Assignees, d \in Departments, prim \in BOOLEAN :
         EmployeeAssignmentCreateView(actor, e, d, prim)
    \/ \E actor \in Actors, pk \in AssignIds : end_assignment(actor, pk)

Spec == Init /\ [][Next]_vars

(* SpecClock: the resolver with the clock and the expiry field of the admin *)
(* form, for an employee holding keys inside and outside the catalog.      *)

ExpiryChoices == {NoDate, Date(0)}
ClockGrantRequests == { <<"user", "emp1", KeyViewAll>>, <<"user", "emp1", KeyDownload>>,
                        <<"department", "d1", KeyViewAll>> }

NextClock ==
    \/ \E actor \in Actors, g \in ClockGrantRequests :
         grant_permission(actor, g[1], g[2], g[3], TRUE)
    \/ \E actor \in Actors, id \in PermIds : revoke_permission(actor, id, TRUE)
    \/ \E id \in PermIds, act \in BOOLEAN, exp \in ExpiryChoices :
         PermissionAdmin_save_model(id, act, exp)
    \/ \E actor \in Actors, d \in Departments :
         EmployeeAssignmentCreateView(actor, "emp1", d, TRUE)
    \/ \E actor \in Actors, pk \in AssignIds : end_assignment(actor, pk)
    \/ Tick

SpecClock == Init /\ [][NextClock]_vars

(* SpecTpl: grants, revokes and the permission templates, served one at a  *)
(* time by an administrator; the audit sink accepts every write.           *)

TplGrantRequests == { <<"user", "emp1", KeyViewAll>>, <<"user", "admin1", KeyViewAll>> }
TplIds == 1..MaxTplId
TplNameInputs == {"t1", "t10", ""}
TplPermissionInputs == { <<KeyViewAll>>, <<KeyViewAll, KeyDownload>> }
TplNameUpdates == { <<>>, <<"t10">> }
TplPermissionUpdates == { <<>>, << <<KeyViewAll, KeyDownload>> >> }
TplUserIds == { <<"emp1">>, <<"admin1">>, <<"emp1", "admin1">>, <<>> }

NextTpl ==
    \/ \E actor \in Actors, g \in TplGrantRequests :
         grant_permission(actor, g[1], g[2], g[3], TRUE)
    \/ \E actor \in Actors, id \in PermIds : revoke_permission(actor, id, TRUE)
    \/ \E id \in PermIds, act \in BOOLEAN : PermissionAdmin_save_model(id, act, NoDate)
    \/ \E actor \in Actors, name \in TplNameInputs, ps \in TplPermissionInputs :
         create_permission_template(actor, name, "d", ps, TRUE)
    \/ \E actor \in Actors, id \in TplIds, name \in TplNameUpdates,
          ps \in TplPermissionUpdates :
         update_permission_template(actor, id, name, <<>>, ps, TRUE)
    \/ \E actor \in Actors, id \in TplIds : delete_permission_template(actor, id, TRUE)
    \/ \E actor \in Actors, id \in TplIds, us \in TplUserIds, overwrite \in BOOLEAN :
         apply_template_to_users(actor, id, us, overwrite, TRUE)

SpecTpl == Init /\ [][NextTpl]_vars

(* SpecSys: the system settings and the backups. *)

BackupIds == 1..MaxBackupId
BackupNames == {"b1", "b2"}
SiteNameInputs == { <<>>, <<"Portal">> }
FileSizeInputs == { <<>>, <<100>>, <<2000>> }

NextSys ==
    \/ \E actor \in Actors, site \in SiteNameInputs, size \in FileSizeInputs :
         update_system_settings(actor, site, size, TRUE)
    \/ \E actor \in Actors, name \in BackupNames, ioOk \in BOOLEAN :
         create_system_backup(actor, name, ioOk)
    \/ \E actor \in Actors, id \in BackupIds : delete_system_backup(actor, id, TRUE)

SpecSys == Init /\ [][NextSys]_vars

(* SpecFail: the mutating operations with an audit sink that may reject a  *)
(* write (auditOk = FALSE: PermissionAuditLog.objects.create raises).      *)

FailGrantRequests == { <<"user", "emp1", KeyViewAll>> }
FailUserIds == { <<"emp1">> }

NextFail ==
    \/ \E actor \in Actors, g \in FailGrantRequests, auditOk \in BOOLEAN :
         grant_permission(actor, g[1], g[2], g[3], auditOk)
    \/ \E actor \in Actors, id \in PermIds, auditOk \in BOOLEAN :
         revoke_permission(actor, id, auditOk)
    \/ \E actor \in Actors, auditOk \in BOOLEAN :
         create_permission_template(actor, "t1", "d", <<KeyViewAll>>, auditOk)
    \/ \E actor \in Actors, id \in TplIds, name \in TplNameUpdates, auditOk \in BOOLEAN :
         update_permission_template(actor, id, name, <<>>, <<>>, auditOk)
    \/ \E actor \in Actors, id \in TplIds, auditOk \in BOOLEAN :
         delete_permission_template(actor, id, auditOk)
    \/ \E actor \in Actors, id \in TplIds, us \in FailUserIds, overwrite \in BOOLEAN,
          auditOk \in BOOLEAN :
         apply_template_to_users(actor, id, us, overwrite, auditOk)
    \/ \E actor \in Actors, site \in SiteNameInputs, auditOk \in BOOLEAN :
         update_system_settings(actor, site, <<>>, auditOk)

SpecFail == Init /\ [][NextFail]_vars

(* SpecAdmin: the operations that write the audit log, and the Django      *)
(* admin site of the audit log.                                            *)

AuditRows == 1..MaxAudit

NextAdmin ==
    \/ \E actor \in Actors, g \in FailGrantRequests :
         grant_permission(actor, g[1], g[2], g[3], TRUE)
    \/ \E actor \in Actors, id \in PermIds : revoke_permission(actor, id, TRUE)
    \/ \E actor \in Actors :
         create_permission_template(actor, "t1", "d", <<KeyViewAll>>, TRUE)
    \/ \E actor \in Actors, id \in TplIds : delete_permission_template(actor, id, TRUE)
    \/ \E actor \in Actors : update_system_settings(actor, <<"Portal">>, <<>>, TRUE)
    \/ \E i \in AuditRows : PermissionAuditLogAdmin_delete(i)
    \/ \E i \in AuditRows : PermissionAuditLogAdmin_change(i, "revoke")

SpecAdmin == Init /\ [][NextAdmin]_vars

(* SpecConc: two administrators send one request each, a grant_permission  *)
(* or an apply_template_to_users for the same user and key, and the steps  *)
(* of the two requests interleave.                                         *)

InitConc ==
    /\ perms = {}
    /\ nextPermId = 1
    /\ assignments = {}
    /\ nextAssignId = 1
    /\ now = 0
    /\ audit = <<>>
    /\ templates = {}
    /\ nextTplId = 1
    /\ settings = {}
    /\ backups = {}
    /\ nextBackupId = 1
    /\ pc = [i \in Procs |-> "idle"]
    /\ loc = [i \in Procs |-> NoLocals]
    /\ documents = {}
    /\ nextDocId = 1
    /\ docPermissions = {}
    /\ shares = {}
    /\ nextShareId = 1
    /\ activities = <<>>

NextConc ==
    \/ \E actor \in Actors :
         create_permission_template(actor, "t1", "d", <<ConcKey>>, TRUE)
    \/ \E i \in Procs : grant_permission_begin(i)
    \/ \E i \in Procs : get_or_create_get(i)
    \/ \E i \in Procs : get_or_create_create(i)
    \/ \E i \in Procs : update_existing(i)
    \/ \E i \in Procs : grant_audit(i)
    \/ \E i \in Procs, id \in TplIds, overwrite \in BOOLEAN : apply_begin(i, id, overwrite)
    \/ \E i \in Procs : apply_filter(i)
    \/ \E i \in Procs : apply_create(i)
    \/ \E i \in Procs : apply_update(i)
    \/ \E i \in Procs : apply_audit(i)
    \/ \E i \in Procs : apply_usage(i)

SpecConc == InitConc /\ [][NextConc]_vars

----------------------------------------------------------------------------
(* Definitions shared by the properties below *)

\* the keys the properties ask about: the catalog and one key outside it
QueryKeys == get_available_permissions \cup {KeyDownload}

NonAdmins == Users \ Admins

\* u has an assignment to exactly department d with end_date = null
HasActiveAssignment(u, d) ==
    \E a \in assignments : a.employee = u /\ a.department = d /\ a.end_date = NoDate

\* row q is stored for user:u or for a department u is currently assigned to
StoredFor(q, u) ==
    \/ q.entity_type = "user" /\ q.entity_id = u
    \/ q.entity_type = "department" /\ HasActiveAssignment(u, q.entity_id)

\* the active row q supplies key k to u
SuppliesTo(q, u, k) == q.is_active /\ q.permission = k /\ StoredFor(q, u)

----------------------------------------------------------------------------
(* C1: for a non-admin principal a grant (direct or via a department)      *)
(* whose expires_at is in the past contributes nothing to                  *)
(* get_user_permissions or user_has_permission, even while is_active is    *)
(* true: a key is effective only if an active, unexpired grant supplies it.*)
(* The resolver never reads expires_at, so this is violated.               *)
C1_ExpiredGrantInert ==
    \A u \in NonAdmins, k \in QueryKeys :
        LET live == { q \in perms : SuppliesTo(q, u, k) /\ ~is_expired(q) } IN
        /\ user_has_permission(u, k) => live # {}
        /\ k \in get_user_permissions(u) => live # {}

----------------------------------------------------------------------------
----------------------------------------------------------------------------
(* C3: for every user with role admin, get_user_permissions and            *)
(* UserPermissionsView return exactly the permission catalog, the key set  *)
(* get_available_permissions enumerates, in every grant-store state        *)
(* reachable by grant, revoke and template-apply operations.               *)
C3_AdminCatalog ==
    \A a \in Admins :
        /\ get_user_permissions(a) = get_available_permissions
        /\ UserPermissionsView(a) = get_available_permissions

\* a template put a key outside the catalog on an admin and a grant was revoked since
C3_Witness ==
    /\ \E p \in perms : /\ p.entity_type = "user" /\ p.entity_id = "admin1"
                        /\ p.permission = KeyDownload /\ p.is_active
                        /\ p.notes.kind = "applied"
    /\ \E i \in DOMAIN audit : audit[i].action = "revoke"

----------------------------------------------------------------------------
(* C4: a grant to department D is effective for user U exactly while U has *)
(* an assignment to D itself with end_date = null, and after               *)
(* end_assignment sets end_date on it user_has_permission(U, key) is false *)
(* unless another grant supplies the key.                                  *)

\* a grant other than the grants to department d supplies k to u
AnotherGrantSupplies(u, d, k) ==
    \E q \in perms : SuppliesTo(q, u, k)
                     /\ ~(q.entity_type = "department" /\ q.entity_id = d)

C4_Effective ==
    \A u \in NonAdmins, k \in QueryKeys :
        user_has_permission(u, k) <=>
            \/ \E q \in perms : q.entity_type = "user" /\ q.entity_id = u
                                /\ q.permission = k /\ q.is_active
            \/ \E q \in perms : q.entity_type = "department" /\ q.permission = k
                                /\ q.is_active /\ HasActiveAssignment(u, q.entity_id)

C4_EndStep ==
    [][ \A actor \in Actors, a \in assignments, p \in perms :
          (/\ end_assignment_response(actor, a.id).status = 200
           /\ a.end_date = NoDate
           /\ end_assignment(actor, a.id)
           /\ a.employee \in NonAdmins
           /\ p.entity_type = "department" /\ p.entity_id = a.department /\ p.is_active
           /\ ~AnotherGrantSupplies(a.employee, a.department, p.permission)
           /\ ~\E b \in assignments \ {a} : b.employee = a.employee
                                             /\ b.department = a.department
                                             /\ b.end_date = NoDate)
          => ~(user_has_permission(a.employee, p.permission))' ]_vars

----------------------------------------------------------------------------
(* C5: there is at most one grant row per (entity_type, entity_id,         *)
(* permission); grant_permission for a triple that already has a row       *)
(* creates no second row, leaves that row active (reactivating it if it    *)
(* was inactive) and returns the existing row's id.                        *)
C5_OneRowPerTriple ==
    \A p, q \in perms : TripleOf(p) = TripleOf(q) => p = q

C5_RegrantStep ==
    [][ \A actor \in Actors, g \in GrantRequests :
          (/\ LookupPermission(g[1], g[2], g[3]) # {}
           /\ grant_permission(actor, g[1], g[2], g[3], TRUE))
          => LET p == CHOOSE x \in LookupPermission(g[1], g[2], g[3]) : TRUE
                 r == grant_permission_response(actor, g[1], g[2], g[3], TRUE)
             IN
             /\ Cardinality(perms') = Cardinality(perms)
             /\ \E q \in perms' : q.id = p.id /\ TripleOf(q) = TripleOf(p) /\ q.is_active
             /\ r.status = 200 /\ r.id = p.id ]_vars

C5_GrantIdempotent == [](C5_OneRowPerTriple) /\ C5_RegrantStep

\* the same triple was granted twice in a row and one active row holds it
C5_Witness ==
    /\ Len(audit) >= 2
    /\ audit[1].action = "grant" /\ audit[2] = audit[1]
    /\ \E p \in perms : p.id = 1 /\ p.is_active /\ p.permission = audit[1].permission
                        /\ p.entity_id = audit[1].entity_id
    /\ Cardinality(perms) = 1

----------------------------------------------------------------------------
(* C6: when two administrators concurrently issue a grant for the same     *)
(* (entity_type, entity_id, permission), through grant_permission or       *)
(* through apply_template_to_users, every interleaving ends with exactly   *)
(* one grant row for that triple, that row active, and both requests       *)
(* reporting success.                                                      *)
ReportsSuccess(i) == loc[i].status = 200 /\ loc[i].errors = 0

C6_ConcurrentGrantsSucceed ==
    (\A i \in Procs : pc[i] = "done" /\ loc[i].status # 404)
    => /\ Cardinality(LookupPermission("user", ConcEntity, ConcKey)) = 1
       /\ \A p \in LookupPermission("user", ConcEntity, ConcKey) : p.is_active
       /\ \A i \in Procs : ReportsSuccess(i)

----------------------------------------------------------------------------
(* C7: after revoke_permission succeeds for a grant, the next              *)
(* get_user_permissions / user_has_permission evaluation for the affected  *)
(* principal no longer includes that grant's key unless another grant      *)
(* supplies it, and the revoke has appended exactly one audit entry with   *)
(* action = revoke naming that permission and entity.                      *)
RevokeOutcome(principals) ==
    \A actor \in Actors, p \in perms :
        (revoke_permission_response(actor, p.id, TRUE).status = 200
         /\ revoke_permission(actor, p.id, TRUE))
        => /\ audit' = Append(audit, AuditEntry("revoke", p.permission, p.entity_type,
                                                p.entity_id, actor))
           /\ \A u \in principals :
                (StoredFor(p, u)
                 /\ ~\E q \in perms \ {p} : SuppliesTo(q, u, p.permission))
                => /\ ~(user_has_permission(u, p.permission))'
                   /\ (p.permission \notin get_user_permissions(u))'

\* as stated, for every affected principal
C7_Original == [][RevokeOutcome(Users)]_vars

(* C7 as amended: the same for every affected non-admin principal (an      *)
(* admin keeps every catalog key whatever is revoked).                     *)
C7_Amended == [][RevokeOutcome(NonAdmins)]_vars

\* the last audit entry is the revoke of the employee's only grant of the key
C7_Witness ==
    /\ Len(audit) >= 2
    /\ audit[Len(audit)] = AuditEntry("revoke", KeyViewAll, "user", "emp1", "admin1")
    /\ ~user_has_permission("emp1", KeyViewAll)

----------------------------------------------------------------------------
(* C8: for every mutating operation (grant_permission, revoke_permission,  *)
(* template create, update, delete and apply, update_system_settings), if  *)
(* the audit-log write fails then the operation reports failure and its    *)
(* mutation is not persisted: the grants, the templates and the settings   *)
(* are left as they were.                                                  *)
Aborted(status) == status # 200 /\ UNCHANGED <<perms, templates, settings>>

C8_GrantAborts ==
    \A actor \in Actors, g \in FailGrantRequests :
        grant_permission(actor, g[1], g[2], g[3], FALSE)
        => Aborted(grant_permission_response(actor, g[1], g[2], g[3], FALSE).status)

C8_RevokeAborts ==
    \A actor \in Actors, id \in PermIds :
        revoke_permission(actor, id, FALSE)
        => Aborted(revoke_permission_response(actor, id, FALSE).status)

C8_TemplateAborts ==
    \A actor \in Actors, id \in TplIds :
        /\ create_permission_template(actor, "t1", "d", <<KeyViewAll>>, FALSE)
           => Aborted(create_permission_template_response(actor, "t1", "d",
                                                          <<KeyViewAll>>, FALSE).status)
        /\ \A name \in TplNameUpdates :
             update_permission_template(actor, id, name, <<>>, <<>>, FALSE)
             => Aborted(update_permission_template_response(actor, id, name, <<>>, <<>>,
                                                            FALSE).status)
        /\ delete_permission_template(actor, id, FALSE)
           => Aborted(delete_permission_template_response(actor, id, FALSE).status)
        /\ \A us \in FailUserIds, overwrite \in BOOLEAN :
             (/\ apply_template_to_users(actor, id, us, overwrite, FALSE)
              /\ apply_template_to_users_response(actor, id, us, overwrite, FALSE).errors > 0)
             => Aborted(apply_template_to_users_status(actor, id, us))

C8_SettingsAborts ==
    \A actor \in Actors, site \in SiteNameInputs :
        update_system_settings(actor, site, <<>>, FALSE)
        => Aborted(update_system_settings_response(actor, site, <<>>, FALSE).status)

C8_AuditFailureAborts ==
    [][C8_GrantAborts /\ C8_RevokeAborts /\ C8_TemplateAborts /\ C8_SettingsAborts]_vars

----------------------------------------------------------------------------
(* C9: each successful grant_permission, create_permission_template,       *)
(* update_permission_template and delete_permission_template call appends  *)
(* exactly one audit entry recording that action, its actor and its        *)
(* target: the audit log grows by exactly one entry per successful call.   *)
C9_GrantAudited ==
    \A actor \in Actors, g \in TplGrantRequests :
        (grant_permission_response(actor, g[1], g[2], g[3], TRUE).status = 200
         /\ grant_permission(actor, g[1], g[2], g[3], TRUE))
        => audit' = Append(audit, [action |-> "grant", permission |-> g[3],
                                   entity_type |-> g[1], entity_id |-> g[2],
                                   performed_by |-> actor])

C9_CreateAudited ==
    \A actor \in Actors, name \in TplNameInputs, ps \in TplPermissionInputs :
        (create_permission_template_response(actor, name, "d", ps, TRUE).status = 200
         /\ create_permission_template(actor, name, "d", ps, TRUE))
        => audit' = Append(audit, [action |-> "template_create",
                                   permission |-> TemplateLabel(name),
                                   entity_type |-> "template",
                                   entity_id |-> ToString(nextTplId),
                                   performed_by |-> actor])

C9_UpdateAudited ==
    \A actor \in Actors, t \in templates, name \in TplNameUpdates,
       ps \in TplPermissionUpdates :
        (update_permission_template_response(actor, t.id, name, <<>>, ps, TRUE).status = 200
         /\ update_permission_template(actor, t.id, name, <<>>, ps, TRUE))
        => audit' = Append(audit, [action |-> "template_update",
                                   permission |-> TemplateLabel(Given(name, t.name)),
                                   entity_type |-> "template",
                                   entity_id |-> ToString(t.id),
                                   performed_by |-> actor])

C9_DeleteAudited ==
    \A actor \in Actors, t \in templates :
        (delete_permission_template_response(actor, t.id, TRUE).status = 200
         /\ delete_permission_template(actor, t.id, TRUE))
        => audit' = Append(audit, [action |-> "template_delete",
                                   permission |-> TemplateLabel(t.name),
                                   entity_type |-> "template",
                                   entity_id |-> ToString(t.id),
                                   performed_by |-> actor])

C9_OneAuditEntryPerCall ==
    [][C9_GrantAudited /\ C9_CreateAudited /\ C9_UpdateAudited /\ C9_DeleteAudited]_vars

\* a template was created, renamed and deleted, each leaving its entry
C9_Witness ==
    /\ Len(audit) = 3
    /\ audit[1].action = "template_create" /\ audit[1].permission = TemplateLabel("t1")
    /\ audit[2].action = "template_update" /\ audit[2].permission = TemplateLabel("t10")
    /\ audit[3].action = "template_delete" /\ audit[3].permission = TemplateLabel("t10")
    /\ templates = {}

----------------------------------------------------------------------------
(* C10: every successful settings or backup mutation, that is              *)
(* update_system_settings, create_system_backup and delete_system_backup,  *)
(* appends exactly one audit entry for that action.                        *)
C10_SettingsAudited ==
    \A actor \in Actors, site \in SiteNameInputs, size \in FileSizeInputs :
        (update_system_settings_response(actor, site, size, TRUE).status = 200
         /\ update_system_settings(actor, site, size, TRUE))
        => /\ Len(audit') = Len(audit) + 1
           /\ audit'[Len(audit')].action = "settings_update"

C10_BackupCreateAudited ==
    \A actor \in Actors, name \in BackupNames :
        (create_system_backup_response(actor, TRUE).status = 200
         /\ create_system_backup(actor, name, TRUE))
        => /\ Len(audit') = Len(audit) + 1
           /\ audit'[Len(audit')].entity_type = "backup"

C10_BackupDeleteAudited ==
    \A actor \in Actors, b \in backups :
        (delete_system_backup_response(actor, b.id, TRUE).status = 200
         /\ delete_system_backup(actor, b.id, TRUE))
        => /\ Len(audit') = Len(audit) + 1
           /\ audit'[Len(audit')].action = "backup_delete"

C10_SystemMutationsAudited ==
    [][C10_SettingsAudited /\ C10_BackupCreateAudited /\ C10_BackupDeleteAudited]_vars

----------------------------------------------------------------------------
(* C11: every grant row that apply_template_to_users creates or updates is *)
(* covered by a template_apply audit entry for that user written by the    *)
(* same call, whatever happens while the remaining permission keys of that *)
(* user are processed.                                                     *)
C11_AppliedRowsAudited ==
    [][ \A actor \in Actors, id \in TplIds, us \in TplUserIds, overwrite \in BOOLEAN :
          apply_template_to_users(actor, id, us, overwrite, TRUE)
          => \A p \in perms' \ perms :
                 \E i \in (Len(audit) + 1)..Len(audit') :
                     /\ audit'[i].action = "template_apply"
                     /\ audit'[i].entity_type = "user"
                     /\ audit'[i].entity_id = p.entity_id ]_vars

----------------------------------------------------------------------------
(* C12: the audit log is append-only: once written, an entry is never      *)
(* deleted and none of its fields ever changes, under every sequence of    *)
(* operations the system offers, the Django admin actions included.        *)
C12_AuditAppendOnly ==
    [][ /\ Len(audit') >= Len(audit)
        /\ \A i \in 1..Len(audit) : audit'[i] = audit[i] ]_vars

----------------------------------------------------------------------------
(* C17: for every targeted user and every permission key of the template   *)
(* for which the user has no active grant before the call,                 *)
(* apply_template_to_users results in an active grant for that (user, key) *)
(* whose notes name the template, whatever other rows (for example an      *)
(* inactive grant for the same pair) already exist.                        *)
ActiveGrant(rows, user, key) ==
    { p \in rows : p.entity_type = "user" /\ p.entity_id = user /\ p.permission = key
                    /\ p.is_active }

C17_ApplyGrantsMissingKeys ==
    [][ \A actor \in Actors, t \in templates, us \in TplUserIds, overwrite \in BOOLEAN :
          (/\ apply_template_to_users_status(actor, t.id, us) = 200
           /\ apply_template_to_users(actor, t.id, us, overwrite, TRUE))
          => \A n \in 1..Len(us), k \in 1..Len(t.permissions) :
                 ActiveGrant(perms, us[n], t.permissions[k]) = {}
                 => \E p \in ActiveGrant(perms', us[n], t.permissions[k]) :
                        notes_icontains_template(p.notes, t.name) ]_vars

----------------------------------------------------------------------------
(* C18: for a template with two permission keys applied with               *)
(* overwrite=false to two users who hold neither key, the first apply      *)
(* returns applied_count = 2 and sets usage_count to 2; re-applying the    *)
(* identical set with overwrite=false returns applied_count = 0 and        *)
(* skipped_count = 2.                                                      *)
TwoKeyTemplates == { t \in templates : Len(t.permissions) = 2 }
TwoUsers == { us \in TplUserIds : Len(us) = 2 }

\* none of the users has a row for a key of the template
HoldNone(t, us) ==
    \A n \in 1..Len(us), k \in 1..Len(t.permissions) :
        LookupPermission("user", us[n], t.permissions[k]) = {}

\* the state the first apply leaves: every user holds every key from the template
HoldAllFrom(t, us) ==
    \A n \in 1..Len(us), k \in 1..Len(t.permissions) :
        \E p \in ActiveGrant(perms, us[n], t.permissions[k]) :
            p.notes = AppliedNotes(t.name)

FirstApply(t, us, actor) ==
    HoldNone(t, us)
    => LET r == apply_template_result(actor, t, us, FALSE, TRUE) IN
       /\ apply_template_to_users_response(actor, t.id, us, FALSE, TRUE).applied_count = 2
       /\ usage_count(r.perms, t.name) = 2

ReApply(t, us, actor, skipped) ==
    HoldAllFrom(t, us)
    => LET r == apply_template_to_users_response(actor, t.id, us, FALSE, TRUE) IN
       r.applied_count = 0 /\ r.skipped_count = skipped

----------------------------------------------------------------------------
(* C19: immediately after every apply_template_to_users call, the          *)
(* template's usage_count equals the number of distinct entities that      *)
(* currently hold at least one grant whose notes reference that template;  *)
(* it is recomputed, never maintained as a running increment.              *)
\* the entities holding a grant whose notes name the template
HoldersOf(rows, name) ==
    { p.entity_id : p \in { q \in rows : q.notes.kind \in {"applied", "updated"}
                                          /\ q.notes.template = name } }

C19_UsageCountIsLive ==
    [][ \A actor \in Actors, t \in templates, us \in TplUserIds, overwrite \in BOOLEAN :
          (/\ apply_template_to_users_status(actor, t.id, us) = 200
           /\ apply_template_to_users(actor, t.id, us, overwrite, TRUE))
          => \E u \in templates' :
                 /\ u.id = t.id
                 /\ u.usage_count = Cardinality(HoldersOf(perms', t.name)) ]_vars

----------------------------------------------------------------------------
(* C20: delete_permission_template is refused exactly when usage_count > 0,*)
(* where usage_count is the number of distinct entities currently holding  *)
(* a grant whose notes reference the template; a refused delete leaves the *)
(* template, all grants and the audit log exactly as they were.            *)
C20_RefusedExactlyWhenHeld ==
    \A actor \in Actors, t \in templates :
        delete_permission_template_response(actor, t.id, TRUE).status = 400
        <=> Cardinality(HoldersOf(perms, t.name)) > 0

C20_RefusedDeleteChangesNothing ==
    [][ \A actor \in Actors, t \in templates :
          (/\ delete_permission_template_response(actor, t.id, TRUE).status = 400
           /\ delete_permission_template(actor, t.id, TRUE))
          => UNCHANGED <<templates, perms, audit>> ]_vars

C20_DeleteRefusal == [](C20_RefusedExactlyWhenHeld) /\ C20_RefusedDeleteChangesNothing

----------------------------------------------------------------------------
(* Documents: listing, retrieval and update (documents/views.py,            *)
(* documents/permissions.py, documents/serializers.py)                      *)

MaxDocId == 1        \* Document rows ever created
MaxDocPermId == 1    \* DocumentPermission rows ever created

\* the tables of the departments app, the clock and the request positions
deptvars == <<perms, nextPermId, assignments, nextAssignId, now, audit, templates,
              nextTplId, settings, backups, nextBackupId, pc, loc>>

KeyEditAll == <<"documents", "edit_all">>

\* rows of documents_documentcategory: "cpub" has is_public = True
Categories == {"cpub", "cint"}
is_public(category) == category = "cpub"

DocumentById(pk) == { d \in documents : d.id = pk }

\* Document.objects.create via DocumentCreateSerializer.create
NewDocument(id, user, category, status) ==
    [id |-> id, category |-> category, created_by |-> user, owned_by |-> user,
     status |-> status, is_latest_version |-> TRUE]

\* permissions.IsAuthenticated, then get_object of a generic view
IsAuthenticated_get_object(user, pk) ==
    IF ~is_authenticated(user) THEN 401
    ELSE IF DocumentById(pk) = {} THEN 404
    ELSE 200

\* DocumentListView.get_queryset: the ids of the documents listed for user
DocumentListView_get_queryset(user) ==
    LET queryset == { d \in documents : d.status \in {"published", "approved"}
                                        /\ d.is_latest_version }
        user_accessible(d) == \E p \in docPermissions :
            p.document = d.id /\ p.user = <<user>> /\ p.is_active
        dept_accessible(d) == \E p \in docPermissions :
            /\ p.document = d.id /\ p.is_active
            /\ \E dep \in user_departments(user) : p.department = <<dep>>
    IN IF role(user) = "admin" THEN { d.id : d \in queryset }
       ELSE { d.id : d \in { x \in queryset : \/ user_accessible(x)
                                              \/ dept_accessible(x)
                                              \/ x.owned_by = user
                                              \/ is_public(x.category) } }

\* DocumentListView: the status and the listed ids
DocumentListView(user) ==
    IF ~is_authenticated(user) THEN [status |-> 401, ids |-> {}]
    ELSE [status |-> 200, ids |-> DocumentListView_get_queryset(user)]

\* DocumentDetailView (GET <pk>/): the status
DocumentDetailView(user, pk) == IsAuthenticated_get_object(user, pk)

\* DocumentUpdateView (PUT/PATCH <pk>/update/): the status
DocumentUpdateView_response(user, pk) == IsAuthenticated_get_object(user, pk)

\* HasDocumentPermission.PERMISSION_MAP
PERMISSION_MAP(action) ==
    CASE action \in {"list", "retrieve", "download"} -> <<"documents", "view_all">>
      [] action = "create" -> <<"documents", "create">>
      [] action \in {"update", "partial_update"} -> <<"documents", "edit_all">>
      [] action = "destroy" -> <<"documents", "delete_all">>
      [] action = "share" -> <<"documents", "share">>
      [] action = "approve" -> <<"documents", "approve">>
      [] OTHER -> <<"documents", "view_all">>

\* HasDocumentPermission.has_object_permission
has_object_permission(user, action, obj) ==
    IF ~is_authenticated(user) THEN FALSE
    ELSE IF role(user) = "admin" THEN TRUE
    ELSE IF obj.owned_by = user THEN TRUE
    ELSE user_has_permission(user, PERMISSION_MAP(action))

\* DocumentCreateView (POST create/) with visibility 'private'
DocumentCreateView(user, category, status) ==
    /\ nextDocId <= MaxDocId
    /\ is_authenticated(user)
    /\ documents' = documents \cup {NewDocument(nextDocId, user, category, status)}
    /\ nextDocId' = nextDocId + 1
    /\ UNCHANGED <<deptvars, docPermissions, shares, nextShareId, activities>>

\* DocumentUpdateView.perform_update: DocumentUpdateSerializer.update sets the sent fields
DocumentUpdateView(user, pk, status) ==
    /\ IF DocumentUpdateView_response(user, pk) # 200
       THEN UNCHANGED documents
       ELSE documents' = { IF d.id = pk THEN [d EXCEPT !.status = status] ELSE d :
                           d \in documents }
    /\ UNCHANGED <<deptvars, nextDocId, docPermissions, shares, nextShareId, activities>>

\* DocumentPermissionCreateView (POST permissions/create/) for a user target
DocumentPermissionCreateView(actor, pk, user, permission) ==
    /\ Cardinality(docPermissions) < MaxDocPermId
    /\ is_authenticated(actor)
    /\ DocumentById(pk) # {}
    /\ docPermissions' = docPermissions \cup
         { [id |-> Cardinality(docPermissions) + 1, document |-> pk, user |-> <<user>>,
            department |-> <<>>, permission |-> permission, granted_by |-> actor,
            expires_at |-> NoDate, is_active |-> TRUE] }
    /\ UNCHANGED <<deptvars, documents, nextDocId, shares, nextShareId, activities>>

DocIds == 1..MaxDocId
DocUsers == {"emp1", "emp2"}
DocPrincipals == DocUsers \cup {"admin1", Anonymous}
DocStatuses == {"draft", "published"}
UpdateStatuses == {"published", "archived"}
DocGrantRequests == { <<"user", "emp2", KeyViewAll>>, <<"user", "emp2", KeyEditAll>> }

NextDoc ==
    \/ \E req \in DocGrantRequests : grant_permission("admin1", req[1], req[2], req[3], TRUE)
    \/ \E category \in Categories, status \in DocStatuses :
         DocumentCreateView("emp1", category, status)
    \/ \E user \in DocPrincipals, pk \in DocIds, status \in UpdateStatuses :
         DocumentUpdateView(user, pk, status)
    \/ \E pk \in DocIds, permission \in {"view", "edit"} :
         DocumentPermissionCreateView("emp1", pk, "emp2", permission)

SpecDoc == Init /\ [][NextDoc]_vars

\* C13: a principal who is not allowed to view a document is not allowed to edit
\* it. View is the listing of DocumentListView and the 'retrieve' decision of
\* HasDocumentPermission; edit is the PUT of DocumentUpdateView and the 'update'
\* decision of HasDocumentPermission.
C13_ViewDeniedImpliesEditDenied ==
    \A u \in DocPrincipals : \A d \in documents :
        /\ d.id \notin DocumentListView(u).ids => DocumentUpdateView_response(u, d.id) # 200
        /\ ~has_object_permission(u, "retrieve", d) => ~has_object_permission(u, "update", d)

\* a principal with no role, ownership, grant, document permission or share on d
NoAccessRows(u, d) ==
    /\ role(u) # "admin"
    /\ d.owned_by # u
    /\ direct_permissions(u) = {} /\ department_permissions(u) = {}
    /\ ~\E p \in docPermissions : p.document = d.id
    /\ ~\E sh \in shares : sh.document = d.id

\* C14: a document of a public category is listed for every authenticated principal
\* without any access row, and that principal's update of it is refused.
C14_PublicCategoryViewOnly ==
    \A u \in DocUsers : \A d \in documents :
        is_public(d.category) /\ NoAccessRows(u, d)
        => /\ d.id \in DocumentListView(u).ids
           /\ DocumentUpdateView_response(u, d.id) # 200

----------------------------------------------------------------------------
(* Document shares and public links (documents/views.py, documents/models.py) *)

MaxShareId == 2     \* DocumentShare rows ever created
MaxActivity == 3    \* DocumentActivity rows ever written

\* a nullable column: <<>> is null, <<v>> is the value v
None == <<>>
Some(v) == <<v>>

\* secrets.token_urlsafe(32) in DocumentShare.save, for a draw that no stored share has
token_urlsafe(id) == "tok" \o ToString(id)

\* DocumentShare.is_expired
share_is_expired(sh) == IF sh.expires_at # NoDate THEN now > sh.expires_at[1] ELSE FALSE

\* DocumentActivity.objects.create
DocumentActivity(document, user, action) ==
    [document |-> document, user |-> user, action |-> action]

\* DocumentSharePermission.has_object_permission
DocumentSharePermission(user, obj) ==
    IF ~is_authenticated(user) THEN FALSE
    ELSE IF role(user) = "admin" THEN TRUE
    ELSE IF obj.owned_by = user THEN TRUE
    ELSE \E p \in docPermissions :
           p.document = obj.id /\ p.user = Some(user) /\ p.permission = "share" /\ p.is_active

\* DocumentShareView.post with share_type 'public_link': the status
DocumentShareView_response(user, document_id) ==
    IF ~is_authenticated(user) THEN 401
    ELSE IF DocumentById(document_id) = {} THEN 404
    ELSE IF ~\A doc \in DocumentById(document_id) : DocumentSharePermission(user, doc) THEN 403
    ELSE 200

\* the active public link of a document (filter(...).first(): the oldest row)
ExistingPublicLinks(document_id) ==
    { sh \in shares : sh.document = document_id /\ sh.share_type = "public_link"
                      /\ sh.is_active }

FirstShare(rows) == CHOOSE sh \in rows : \A other \in rows : sh.id <= other.id

\* DocumentShareView._create_public_link: the share table after the call, when
\* DocumentShare.save draws token for a new link
create_public_link_token(user, document_id, link_password, expires_at, token) ==
    IF ExistingPublicLinks(document_id) # {}
    THEN LET existing_share == FirstShare(ExistingPublicLinks(document_id))
         IN { IF sh.id = existing_share.id
              THEN [sh EXCEPT !.access_level = "view", !.expires_at = expires_at,
                              !.link_password = link_password]
              ELSE sh : sh \in shares }
    ELSE shares \cup
         { [id |-> nextShareId, document |-> document_id, share_type |-> "public_link",
            access_level |-> "view", shared_with_user |-> None,
            shared_with_department |-> None,
            public_link_token |-> Some(token),
            link_password |-> link_password, shared_by |-> user, expires_at |-> expires_at,
            is_active |-> TRUE, access_count |-> 0, last_accessed_at |-> NoDate,
            last_accessed_by |-> None] }

\* the same when the draw is a token no stored share has
create_public_link(user, document_id, link_password, expires_at) ==
    create_public_link_token(user, document_id, link_password, expires_at,
                             token_urlsafe(nextShareId))

\* public_link_token is unique=True: the INSERT of a new link whose token a stored
\* share already has raises IntegrityError
TokenCollides(document_id, token) ==
    /\ ExistingPublicLinks(document_id) = {}
    /\ \E sh \in shares : sh.public_link_token = Some(token)

\* DocumentShareView.post with share_type 'public_link': the status when
\* DocumentShare.save draws token ('except Exception' answers 500)
DocumentShareView_token_response(user, document_id, token) ==
    IF DocumentShareView_response(user, document_id) # 200
    THEN DocumentShareView_response(user, document_id)
    ELSE IF TokenCollides(document_id, token) THEN 500
    ELSE 200

\* DocumentShareView.post (POST <document_id>/share/) with share_type 'public_link',
\* when DocumentShare.save draws token
DocumentShareView_token(user, document_id, link_password, expires_at, token) ==
    /\ Len(activities) < MaxActivity
    /\ ExistingPublicLinks(document_id) = {} => nextShareId <= MaxShareId
    /\ IF DocumentShareView_token_response(user, document_id, token) # 200
       THEN UNCHANGED <<shares, nextShareId, activities>>
       ELSE /\ shares' = create_public_link_token(user, document_id, link_password,
                                                  expires_at, token)
            /\ nextShareId' = IF ExistingPublicLinks(document_id) = {}
                              THEN nextShareId + 1 ELSE nextShareId
            /\ activities' = Append(activities, DocumentActivity(document_id, Some(user), "shared"))
    /\ UNCHANGED <<deptvars, documents, nextDocId, docPermissions>>

\* the same when the draw is a token no stored share has
DocumentShareView(user, document_id, link_password, expires_at) ==
    DocumentShareView_token(user, document_id, link_password, expires_at,
                            token_urlsafe(nextShareId))

\* RevokeDocumentShareView.delete: the status
RevokeDocumentShareView_response(user, share_id) ==
    IF ~is_authenticated(user) THEN 401
    ELSE IF ~\E sh \in shares : sh.id = share_id THEN 404
    ELSE IF \E sh \in shares :
              /\ sh.id = share_id /\ sh.shared_by # user /\ role(user) # "admin"
              /\ ~\E doc \in DocumentById(sh.document) : doc.owned_by = user THEN 403
    ELSE 200

\* RevokeDocumentShareView.delete (DELETE shares/<share_id>/revoke/)
RevokeDocumentShareView(user, share_id) ==
    /\ Len(activities) < MaxActivity
    /\ IF RevokeDocumentShareView_response(user, share_id) # 200
       THEN UNCHANGED <<shares, activities>>
       ELSE /\ shares' = { IF sh.id = share_id THEN [sh EXCEPT !.is_active = FALSE] ELSE sh :
                           sh \in shares }
            /\ \E sh \in shares :
                 /\ sh.id = share_id
                 /\ activities' = Append(activities,
                                         DocumentActivity(sh.document, Some(user), "shared"))
    /\ UNCHANGED <<deptvars, documents, nextDocId, docPermissions, nextShareId>>

\* DocumentShare.objects.get(public_link_token=token, share_type='public_link', is_active=True)
SharesByToken(token) ==
    { sh \in shares : sh.public_link_token = Some(token) /\ sh.share_type = "public_link"
                      /\ sh.is_active }

\* bool(share.link_password): null and the empty string are falsy
requires_password(sh) == sh.link_password # None /\ sh.link_password # Some("")

\* DocumentAccessSerializer: password = CharField(required=False, allow_blank=True);
\* a JSON null is not valid, an absent password reads as ''
DocumentAccessSerializer_is_valid(password) == password # Some(NULL)
provided_password(password) == IF password = None THEN "" ELSE password[1]

\* DocumentSharedAccessView.get (GET shared/<token>/): the status
DocumentSharedAccessView_get(token) ==
    IF SharesByToken(token) = {} THEN 404
    ELSE IF \E sh \in SharesByToken(token) : share_is_expired(sh) THEN 410
    ELSE 200

\* mutant: the password is compared before the expiry is looked at
DocumentSharedAccessView_post_password_first(token, password) ==
    IF SharesByToken(token) = {} THEN 404
    ELSE LET share == CHOOSE sh \in SharesByToken(token) : TRUE
         IN IF requires_password(share) /\ ~DocumentAccessSerializer_is_valid(password) THEN 400
            ELSE IF requires_password(share)
                    /\ provided_password(password) # share.link_password[1] THEN 401
            ELSE IF share_is_expired(share) THEN 410
            ELSE 200

\* DocumentSharedAccessView.post (POST shared/<token>/): the status
DocumentSharedAccessView_post_response(token, password) ==
    IF SharesByToken(token) = {} THEN 404
    ELSE LET share == CHOOSE sh \in SharesByToken(token) : TRUE
         IN IF share_is_expired(share) THEN 410
            ELSE IF requires_password(share) /\ ~DocumentAccessSerializer_is_valid(password) THEN 400
            ELSE IF requires_password(share)
                    /\ provided_password(password) # share.link_password[1] THEN 401
            ELSE 200

\* DocumentSharedAccessView.post: on success the access is counted and logged
DocumentSharedAccessView_post(user, token, password) ==
    /\ Len(activities) < MaxActivity
    /\ IF DocumentSharedAccessView_post_response(token, password) # 200
       THEN UNCHANGED <<shares, activities>>
       ELSE LET share == CHOOSE sh \in SharesByToken(token) : TRUE
            IN /\ shares' = (shares \ {share}) \cup
                     { [share EXCEPT !.access_count = share.access_count + 1,
                                     !.last_accessed_at = Date(now)] }
               /\ activities' = Append(activities,
                     DocumentActivity(share.document,
                                      IF is_authenticated(user) THEN Some(user) ELSE None,
                                      "viewed"))
    /\ UNCHANGED <<deptvars, documents, nextDocId, docPermissions, nextShareId>>

ShareIds == 1..MaxShareId
TokenInputs == { token_urlsafe(id) : id \in ShareIds } \cup {"unknown"}
PasswordInputs == {None, Some("pw"), Some("bad"), Some(NULL)}
LinkPasswords == {None, Some("pw")}
LinkExpiries == {NoDate, Date(0)}
Visitors == {Anonymous, "emp2"}

NextShare ==
    \/ DocumentCreateView("emp1", "cint", "published")
    \/ \E user \in DocUsers, pk \in DocIds, link_password \in LinkPasswords :
         \E expires_at \in LinkExpiries : DocumentShareView(user, pk, link_password, expires_at)
    \/ \E user \in DocUsers, share_id \in ShareIds : RevokeDocumentShareView(user, share_id)
    \/ \E user \in Visitors, token \in TokenInputs, password \in PasswordInputs :
         DocumentSharedAccessView_post(user, token, password)
    \/ Tick

SpecShare == Init /\ [][NextShare]_vars

\* the token is in no share row / is the token of a share that is expired
TokenAbsent(token) == ~\E sh \in shares : sh.public_link_token = Some(token)
TokenExpired(token) == \E sh \in shares : sh.public_link_token = Some(token) /\ share_is_expired(sh)

\* C15 (responses): for a token that is absent or expired, GET and POST deny, and POST
\* gives the same answer for every supplied password.
C15_DeniedWhateverPassword ==
    \A token \in TokenInputs :
        TokenAbsent(token) \/ TokenExpired(token)
        => /\ DocumentSharedAccessView_get(token) \in {404, 410}
           /\ \A password \in PasswordInputs :
                /\ DocumentSharedAccessView_post_response(token, password) \in {404, 410}
                /\ DocumentSharedAccessView_post_response(token, password)
                     = DocumentSharedAccessView_post_response(token, None)

\* C15 (effects): resolving such a token records no access
C15_DeniedRecordsNothing ==
    [][ \A user \in Visitors, token \in TokenInputs, password \in PasswordInputs :
          DocumentSharedAccessView_post(user, token, password)
            /\ (TokenAbsent(token) \/ TokenExpired(token))
          => UNCHANGED <<shares, activities>> ]_vars

\* C15: resolving a public link by a token that is absent from the store or expired is
\* always denied, the same for every supplied password, and no access is recorded.
C15_AbsentOrExpiredDenies == [](C15_DeniedWhateverPassword) /\ C15_DeniedRecordsNothing

\* an active password-gated link has expired and is resolved with its own password
C15_Witness ==
    \E sh \in shares :
        /\ sh.is_active /\ sh.link_password = Some("pw") /\ share_is_expired(sh)
        /\ DocumentSharedAccessView_post_response(sh.public_link_token[1], Some("pw")) = 410
        /\ DocumentSharedAccessView_post_response("unknown", Some("pw")) = 404

\* C16: a successful resolution of a public link adds exactly one to access_count and
\* sets last_accessed_at and last_accessed_by; a failed resolution changes no share.
C16_AccessRecorded ==
    [][ \A user \in Visitors, token \in TokenInputs, password \in PasswordInputs :
          DocumentSharedAccessView_post(user, token, password)
          => IF DocumentSharedAccessView_post_response(token, password) = 200
             THEN \A sh \in SharesByToken(token) :
                    \E new \in shares' :
                        /\ new.id = sh.id
                        /\ new.access_count = sh.access_count + 1
                        /\ new.last_accessed_at = Date(now)
                        /\ new.last_accessed_by = (IF is_authenticated(user)
                                                   THEN Some(user) ELSE None)
             ELSE UNCHANGED shares ]_vars

----------------------------------------------------------------------------
(* SpecKey: grants and template applies whose permission key has no '.' *)

\* a permission key without a '.': 'superuser'
KeyDotless == <<"superuser">>

KeyGrantRequests == { <<"user", "emp1", KeyViewAll>>, <<"user", "emp1", KeyDotless>>,
                      <<"department", "d1", KeyDotless>> }
KeyPermissionInputs == { <<KeyDotless>>, <<KeyViewAll, KeyDotless>> }
KeyUserIds == { <<"emp1">>, <<"emp2">> }

NextKey ==
    \/ \E actor \in Actors, g \in KeyGrantRequests :
         grant_permission(actor, g[1], g[2], g[3], TRUE)
    \/ \E actor \in Actors, id \in PermIds : revoke_permission(actor, id, TRUE)
    \/ \E actor \in Actors, ps \in KeyPermissionInputs :
         create_permission_template(actor, "t1", "d", ps, TRUE)
    \/ \E actor \in Actors, id \in TplIds, us \in KeyUserIds, overwrite \in BOOLEAN :
         apply_template_to_users(actor, id, us, overwrite, TRUE)

SpecKey == Init /\ [][NextKey]_vars

\* C21 (store): no grant row holds a key without a '.'
C21_NoDotlessRow == \A p \in perms : Len(p.permission) > 1

\* C21 (effects): a grant request whose key has no '.' writes no grant row and no
\* audit entry
C21_DotlessGrantWritesNothing ==
    [][ \A actor \in Actors, g \in KeyGrantRequests :
          grant_permission(actor, g[1], g[2], g[3], TRUE) /\ Len(g[3]) <= 1
          => UNCHANGED <<perms, audit>> ]_vars

\* C21: a grant request or template apply whose permission key contains no '.' is
\* rejected, writes no grant row and no audit entry, and the key is never stored
\* under a fallback category.
C21_DotlessKeyRejected == [](C21_NoDotlessRow) /\ C21_DotlessGrantWritesNothing

\* C22 (response): a public-link request for a document that has an active public
\* link is not accepted
C22_DuplicateRefused ==
    \A user \in DocUsers, pk \in DocIds :
        ExistingPublicLinks(pk) # {} => DocumentShareView_response(user, pk) # 200

\* C22 (effects): such a request leaves the existing link as it was
C22_ExistingLinkKept ==
    [][ \A user \in DocUsers, pk \in DocIds, link_password \in LinkPasswords :
          \A expires_at \in LinkExpiries :
             DocumentShareView(user, pk, link_password, expires_at)
               /\ ExistingPublicLinks(pk) # {}
             => UNCHANGED shares ]_vars

\* C22: creating a public link for a document that already has an active public link
\* is rejected as a conflict, and the existing link's token, access_level, password
\* and expiry are left unchanged.
C22_DuplicateLinkRejected == [](C22_DuplicateRefused) /\ C22_ExistingLinkKept

----------------------------------------------------------------------------
(* Department heads (accounts/permissions.py) *)

\* Department.head: head1 heads d1
head(department) == IF department = "d1" THEN "head1" ELSE NULL

\* DocumentCategory.department: the internal category belongs to d1
category_department(category) == IF category = "cint" THEN "d1" ELSE NULL

\* DocumentOwnerOrAdmin.has_object_permission: "allow", "deny", or "FieldError" when
\* department_assignments.filter(end_date__isnull=True, role='head') is evaluated
\* (EmployeeDepartment has no field 'role'). hasattr(obj, f) is f \in DOMAIN obj.
DocumentOwnerOrAdmin(user, obj) ==
    IF ~is_authenticated(user) THEN "deny"
    ELSE IF role(user) = "admin" THEN "allow"
    ELSE IF "owned_by" \in DOMAIN obj /\ obj.owned_by = user THEN "allow"
    ELSE IF role(user) = "department_head" /\ "department" \in DOMAIN obj THEN "FieldError"
    ELSE "deny"

\* C23: a principal with role department_head who heads the department of a
\* document's category is allowed object-level access to the document without
\* ownership, document permission or share.
C23_DepartmentHeadAllowed ==
    \A u \in Heads : \A d \in documents :
        head(category_department(d.category)) = u /\ d.owned_by # u
        => DocumentOwnerOrAdmin(u, d) = "allow"

----------------------------------------------------------------------------
\* C24: for every (target user, template key) pair that already has an active grant,
\* apply_template_to_users leaves the row entirely unchanged when overwrite is false,
\* and when overwrite is true refreshes exactly its granted_by and notes, keeping
\* is_active, expires_at and the row's identity.
C24_OverwriteFrame ==
    \A actor \in Actors, t \in templates, us \in TplUserIds, overwrite \in BOOLEAN :
        apply_template_to_users_status(actor, t.id, us) = 200
        => LET r == apply_template_result(actor, t, us, overwrite, TRUE) IN
           \A n \in 1..Len(us), k \in 1..Len(t.permissions) :
              \A p \in ActiveGrant(perms, us[n], t.permissions[k]) :
                 IF overwrite
                 THEN [p EXCEPT !.granted_by = actor, !.notes = UpdatedNotes(t.name)]
                        \in r.perms
                 ELSE p \in r.perms

----------------------------------------------------------------------------
(* Shares with a user or a department (documents/views.py, documents/models.py) *)

\* DocumentShare.objects.create for share_type 'user' or 'department'
NewShare(id, document_id, share_type, target_user, target_department, shared_by, access_level, expires_at) ==
    [id |-> id, document |-> document_id, share_type |-> share_type,
     access_level |-> access_level, shared_with_user |-> target_user,
     shared_with_department |-> target_department, public_link_token |-> None,
     link_password |-> None, shared_by |-> shared_by, expires_at |-> expires_at,
     is_active |-> TRUE, access_count |-> 0, last_accessed_at |-> NoDate,
     last_accessed_by |-> None]

\* the active share of a document with a user / with a department
ExistingUserShares(document_id, target) ==
    { sh \in shares : sh.document = document_id /\ sh.share_type = "user"
                      /\ sh.shared_with_user = Some(target) /\ sh.is_active }
ExistingDepartmentShares(document_id, department) ==
    { sh \in shares : sh.document = document_id /\ sh.share_type = "department"
                      /\ sh.shared_with_department = Some(department) /\ sh.is_active }

\* the update of an existing share, or the creation of a new one
ShareUpsert(existing, new, access_level, expires_at) ==
    IF existing # {}
    THEN { IF sh.id = FirstShare(existing).id
           THEN [sh EXCEPT !.access_level = access_level, !.expires_at = expires_at]
           ELSE sh : sh \in shares }
    ELSE shares \cup {new}

\* DocumentShareView.post with share_type 'user' and one id in user_ids
\* (DocumentShareView._share_with_users)
DocumentShareView_user(user, document_id, target, access_level, expires_at) ==
    LET existing == ExistingUserShares(document_id, target) IN
    /\ Len(activities) < MaxActivity
    /\ existing = {} => nextShareId <= MaxShareId
    /\ IF DocumentShareView_response(user, document_id) # 200
       THEN UNCHANGED <<shares, nextShareId, activities>>
       ELSE /\ shares' = ShareUpsert(existing,
                             NewShare(nextShareId, document_id, "user", Some(target), None,
                                      user, access_level, expires_at),
                             access_level, expires_at)
            /\ nextShareId' = IF existing = {} THEN nextShareId + 1 ELSE nextShareId
            /\ activities' = Append(activities, DocumentActivity(document_id, Some(user), "shared"))
    /\ UNCHANGED <<deptvars, documents, nextDocId, docPermissions>>

\* DocumentShareView.post with share_type 'department'
\* (DocumentShareView._share_with_department)
DocumentShareView_department(user, document_id, department, access_level, expires_at) ==
    LET existing == ExistingDepartmentShares(document_id, department) IN
    /\ Len(activities) < MaxActivity
    /\ existing = {} => nextShareId <= MaxShareId
    /\ IF DocumentShareView_response(user, document_id) # 200
       THEN UNCHANGED <<shares, nextShareId, activities>>
       ELSE /\ shares' = ShareUpsert(existing,
                             NewShare(nextShareId, document_id, "department", None,
                                      Some(department), user, access_level, expires_at),
                             access_level, expires_at)
            /\ nextShareId' = IF existing = {} THEN nextShareId + 1 ELSE nextShareId
            /\ activities' = Append(activities, DocumentActivity(document_id, Some(user), "shared"))
    /\ UNCHANGED <<deptvars, documents, nextDocId, docPermissions>>

\* mutant: the expiry is not looked at
can_access_active_only(sh, user) ==
    IF ~sh.is_active THEN FALSE
    ELSE IF sh.share_type = "user" THEN sh.shared_with_user = Some(user)
    ELSE IF sh.share_type = "department"
    THEN \E dep \in user_departments(user) : sh.shared_with_department = Some(dep)
    ELSE sh.share_type = "public_link"

\* DocumentShare.can_access
can_access(sh, user) ==
    IF ~sh.is_active \/ share_is_expired(sh) THEN FALSE
    ELSE IF sh.share_type = "user" THEN sh.shared_with_user = Some(user)
    ELSE IF sh.share_type = "department"
    THEN \E dep \in user_departments(user) : sh.shared_with_department = Some(dep)
    ELSE sh.share_type = "public_link"

ACCESS_LEVEL_CHOICES == {"view", "download"}

NextShareTo ==
    \/ DocumentCreateView("emp1", "cint", "published")
    \/ \E link_password \in LinkPasswords, expires_at \in LinkExpiries :
         DocumentShareView("emp1", 1, link_password, expires_at)
    \/ \E user \in DocUsers, access_level \in ACCESS_LEVEL_CHOICES :
         \E expires_at \in LinkExpiries :
            DocumentShareView_user(user, 1, "emp2", access_level, expires_at)
    \/ \E access_level \in ACCESS_LEVEL_CHOICES, expires_at \in LinkExpiries :
         DocumentShareView_department("emp1", 1, "d1", access_level, expires_at)
    \/ \E share_id \in ShareIds : RevokeDocumentShareView("emp1", share_id)
    \/ EmployeeAssignmentCreateView("admin1", "emp2", "d1", TRUE)
    \/ Tick

SpecShareTo == Init /\ [][NextShareTo]_vars

\* C25: a document share whose expires_at is in the past never allows access,
\* whatever its share_type and access_level and even if is_active is true:
\* DocumentShare.can_access returns false for it for every user.
C25_ExpiredShareDenies ==
    \A sh \in shares : \A u \in Users :
        sh.expires_at # NoDate /\ sh.expires_at[1] < now => ~can_access(sh, u)

\* an active share of access_level download with its target user, a department
\* share with a member and a public link have all passed their expires_at
C25_Witness ==
    /\ \E sh \in shares :
         /\ sh.share_type = "user" /\ sh.is_active /\ sh.access_level = "download"
         /\ sh.expires_at # NoDate /\ sh.expires_at[1] < now
         /\ sh.shared_with_user = Some("emp2") /\ ~can_access(sh, "emp2")
    /\ \E sh \in shares :
         /\ sh.share_type = "department" /\ sh.is_active
         /\ sh.expires_at # NoDate /\ sh.expires_at[1] < now
         /\ \E dep \in user_departments("emp2") : sh.shared_with_department = Some(dep)

----------------------------------------------------------------------------
(* SpecToken: public links whose token is drawn from a small token space, so *)
(* that a draw can repeat the token of a stored share.                       *)

TokenSpace == {"tok1", "tok2"}

NextToken ==
    \/ DocumentCreateView("emp1", "cint", "published")
    \/ \E link_password \in LinkPasswords, expires_at \in LinkExpiries, token \in TokenSpace :
         DocumentShareView_token("emp1", 1, link_password, expires_at, token)
    \/ \E share_id \in ShareIds : RevokeDocumentShareView("emp1", share_id)
    \/ \E user \in Visitors, token \in TokenSpace, password \in PasswordInputs :
         DocumentSharedAccessView_post(user, token, password)
    \/ Tick

SpecToken == Init /\ [][NextToken]_vars

\* C26 (store): the stored public_link_token values are pairwise distinct
C26_TokensDistinct ==
    \A a \in shares, b \in shares :
        a.public_link_token # None /\ a.public_link_token = b.public_link_token => a.id = b.id

\* C26 (response): a public-link request that passes the permission check does not
\* fail, whatever token is drawn
C26_CreationNeverFails ==
    \A user \in DocUsers, pk \in DocIds, token \in TokenSpace :
        DocumentShareView_response(user, pk) = 200
        => DocumentShareView_token_response(user, pk, token) = 200

\* C26: public-link creation never fails and never stores a duplicate because of a
\* token collision: a colliding draw is replaced by a fresh one, and all stored
\* public_link_token values are pairwise distinct.
C26_CollisionRetried == C26_TokensDistinct /\ C26_CreationNeverFails

----------------------------------------------------------------------------
\* grants stored for user u, and for a department in which u has an assignment with
\* end_date = null
StoredForUser(u) == { p \in perms : p.entity_type = "user" /\ p.entity_id = u }
StoredForOpenDepartment(u) ==
    { p \in perms : /\ p.entity_type = "department"
                    /\ \E a \in assignments : /\ a.employee = u /\ a.end_date = NoDate
                                              /\ a.department = p.entity_id }

\* C27: for every authenticated non-admin user with no grant stored for the user and
\* none for a department of an open assignment, get_user_permissions returns the
\* empty set and user_has_permission returns false for every key.
C27_NoGrantsNoPermissions ==
    \A u \in NonAdmins :
        StoredForUser(u) = {} /\ StoredForOpenDepartment(u) = {}
        => /\ get_user_permissions(u) = {}
           /\ \A k \in QueryKeys \cup { p.permission : p \in perms } : ~user_has_permission(u, k)

\* a user whose assignment has ended, in a department that holds an active grant;
\* the resolver gives the user nothing
C27_Witness ==
    \E u \in NonAdmins :
        /\ StoredForUser(u) = {} /\ StoredForOpenDepartment(u) = {}
        /\ \E a \in assignments : /\ a.employee = u /\ a.end_date # NoDate
                                  /\ \E p \in perms : /\ p.entity_type = "department"
                                                      /\ p.entity_id = a.department
                                                      /\ p.is_active
        /\ get_user_permissions(u) = {}

----------------------------------------------------------------------------
(* SpecRevoke: two administrators send one revoke_permission request each   *)
(* and the database queries of the two requests interleave                  *)
(* (departments/views.py).                                                  *)

\* revoke_permission: the role check and Permission.objects.get(id=permission_id)
revoke_get(i, permission_id) ==
    /\ pc[i] = "idle"
    /\ LET found == { p \in perms : p.id = permission_id }
           locals == [NoLocals EXCEPT !.kind = "revoke", !.permission_id = permission_id]
       IN  IF role(RequestUser(i)) # "admin"
           THEN Goto(i, "done", [locals EXCEPT !.status = 403])
           ELSE IF found = {}
           THEN Goto(i, "done", [locals EXCEPT !.status = 404])
           ELSE Goto(i, "revoke_audit", [locals EXCEPT !.obj = found])
    /\ UNCHANGED <<docvars, perms, nextPermId, assignments, nextAssignId, now, audit,
                   templates, nextTplId, settings, backups, nextBackupId>>

\* revoke_permission: the audit entry, written from the loaded row before the deletion
revoke_audit(i) ==
    /\ pc[i] = "revoke_audit"
    /\ Len(audit) <= MaxAudit
    /\ LET p == CHOOSE x \in loc[i].obj : TRUE IN
       audit' = PermissionAuditLog_create(audit,
                    AuditEntry("revoke", p.permission, p.entity_type, p.entity_id,
                               RequestUser(i)))
    /\ Goto(i, "revoke_delete", loc[i])
    /\ UNCHANGED <<docvars, perms, nextPermId, assignments, nextAssignId, now, templates,
                   nextTplId, settings, backups, nextBackupId>>

\* permission.delete(): DELETE ... WHERE id = <id of the loaded row>, which deletes
\* nothing and raises nothing when the row is already gone; then the response
revoke_delete(i) ==
    /\ pc[i] = "revoke_delete"
    /\ LET p == CHOOSE x \in loc[i].obj : TRUE IN
       perms' = { x \in perms : x.id # p.id }
    /\ Goto(i, "done", [loc[i] EXCEPT !.status = 200])
    /\ UNCHANGED <<docvars, nextPermId, assignments, nextAssignId, now, audit, templates,
                   nextTplId, settings, backups, nextBackupId>>

RevokeGrantRequests == { <<"user", "emp1", KeyViewAll>>, <<"department", "d1", KeyViewAll>> }

NextRevoke ==
    \/ \E g \in RevokeGrantRequests : grant_permission("admin1", g[1], g[2], g[3], TRUE)
    \/ \E i \in Procs, id \in PermIds : revoke_get(i, id)
    \/ \E i \in Procs : revoke_audit(i)
    \/ \E i \in Procs : revoke_delete(i)

SpecRevoke == InitConc /\ [][NextRevoke]_vars

\* the 'revoke' entries of the audit log
RevokeEntries == { n \in 1..Len(audit) : audit[n].action = "revoke" }

\* C28: when two revoke_permission requests for the same grant overlap, in every
\* interleaving the grant is deleted once and exactly one revoke audit entry is
\* written for it; one request reports success and the other reports not-found.
C28_ConcurrentRevokeOnce ==
    \A i \in Procs, j \in Procs :
        /\ i # j /\ pc[i] = "done" /\ pc[j] = "done"
        /\ loc[i].kind = "revoke" /\ loc[j].kind = "revoke"
        /\ loc[i].permission_id = loc[j].permission_id
        /\ loc[i].status = 200
        => /\ loc[j].status = 404
           /\ Cardinality(RevokeEntries) = 1

----------------------------------------------------------------------------
(* SpecAccess: two visitors resolve a public link at the same time and the  *)
(* database queries of the two requests interleave (documents/views.py).    *)

\* DocumentSharedAccessView.post: DocumentShare.objects.get, the expiry check and
\* the password check, on the row as loaded
access_get(i, token, password) ==
    /\ pc[i] = "idle"
    /\ LET status == DocumentSharedAccessView_post_response(token, password)
           locals == [NoLocals EXCEPT !.kind = "access"]
       IN  IF status # 200
           THEN Goto(i, "done", [locals EXCEPT !.status = status])
           ELSE Goto(i, "access_save", [locals EXCEPT !.obj = SharesByToken(token)])
    /\ UNCHANGED <<docvars, perms, nextPermId, assignments, nextAssignId, now, audit,
                   templates, nextTplId, settings, backups, nextBackupId>>

\* share.access_count += 1; share.last_accessed_at = timezone.now(); share.save():
\* every field of the row is written from the loaded instance
access_save(i) ==
    /\ pc[i] = "access_save"
    /\ LET share == CHOOSE sh \in loc[i].obj : TRUE
           saved == [share EXCEPT !.access_count = share.access_count + 1,
                                  !.last_accessed_at = Date(now)]
       IN  /\ shares' = { sh \in shares : sh.id # share.id } \cup {saved}
           /\ Goto(i, "access_log", [loc[i] EXCEPT !.obj = {saved}])
    /\ UNCHANGED <<perms, nextPermId, assignments, nextAssignId, now, audit, templates,
                   nextTplId, settings, backups, nextBackupId>>
    /\ UNCHANGED <<documents, nextDocId, docPermissions, nextShareId, activities>>

\* DocumentActivity.objects.create and the response
access_log(i) ==
    /\ pc[i] = "access_log"
    /\ LET share == CHOOSE sh \in loc[i].obj : TRUE IN
       activities' = Append(activities,
                            DocumentActivity(share.document, Some(RequestUser(i)), "viewed"))
    /\ Goto(i, "done", [loc[i] EXCEPT !.status = 200])
    /\ UNCHANGED <<perms, nextPermId, assignments, nextAssignId, now, audit, templates,
                   nextTplId, settings, backups, nextBackupId>>
    /\ UNCHANGED <<documents, nextDocId, docPermissions, shares, nextShareId>>

\* DocumentCreateView and DocumentShareView leave pc and loc alone; here they are
\* served whole between the steps of the two requests
NextAccess ==
    \/ DocumentCreateView("emp1", "cint", "published")
    \/ \E link_password \in LinkPasswords, expires_at \in LinkExpiries :
         DocumentShareView_token("emp1", 1, link_password, expires_at, "tok1")
    \/ \E i \in Procs, token \in TokenSpace, password \in PasswordInputs :
         access_get(i, token, password)
    \/ \E i \in Procs : access_save(i)
    \/ \E i \in Procs : access_log(i)
    \/ Tick

SpecAccess == InitConc /\ [][NextAccess]_vars

\* the requests that resolved the link successfully
Resolved == { i \in Procs : pc[i] = "done" /\ loc[i].kind = "access" /\ loc[i].status = 200 }

\* C29: when several successful accesses of the same public link overlap, every one
\* of them is counted: after n successful resolutions, in any interleaving, the
\* share's access_count has increased by exactly n (from 0 at creation).
C29_EveryAccessCounted ==
    (\A i \in Procs : pc[i] = "done")
    => \A sh \in shares : sh.access_count = Cardinality(Resolved)


----------------------------------------------------------------------------
(* SpecRole: the administrative operations of departments/views.py called  *)
(* by an administrator, a department head and the employees. Every handler *)
(* starts with `if request.user.role != 'admin': return Response(403)`.    *)

Requesters == {"admin1"} \cup NonAdmins
RoleGrantRequests == { <<"user", "emp1", KeyViewAll>>, <<"user", "head1", KeyEditAll>> }
RoleUserIds == { <<"emp1">>, <<"head1">> }

NextRole ==
    \/ \E actor \in Requesters, g \in RoleGrantRequests :
         grant_permission(actor, g[1], g[2], g[3], TRUE)
    \/ \E actor \in Requesters, id \in PermIds : revoke_permission(actor, id, TRUE)
    \/ \E actor \in Requesters, name \in {"t1", "t10"} :
         create_permission_template(actor, name, "d", <<KeyViewAll>>, TRUE)
    \/ \E actor \in Requesters, id \in TplIds, name \in TplNameUpdates :
         update_permission_template(actor, id, name, <<>>, <<>>, TRUE)
    \/ \E actor \in Requesters, id \in TplIds : delete_permission_template(actor, id, TRUE)
    \/ \E actor \in Requesters, id \in TplIds, us \in RoleUserIds, overwrite \in BOOLEAN :
         apply_template_to_users(actor, id, us, overwrite, TRUE)
    \/ \E actor \in Requesters, site \in SiteNameInputs :
         update_system_settings(actor, site, <<>>, TRUE)

SpecRole == Init /\ [][NextRole]_vars

\* every administrative request of a non-admin is answered 403, whatever it
\* names and whatever the stores hold
C30_Refused403 ==
    \A actor \in NonAdmins :
        /\ \A g \in RoleGrantRequests :
             grant_permission_response(actor, g[1], g[2], g[3], TRUE).status = 403
        /\ \A id \in PermIds : revoke_permission_response(actor, id, TRUE).status = 403
        /\ \A name \in {"t1", "t10"} :
             create_permission_template_response(actor, name, "d", <<KeyViewAll>>,
                                                 TRUE).status = 403
        /\ \A id \in TplIds, name \in TplNameUpdates :
             update_permission_template_response(actor, id, name, <<>>, <<>>,
                                                 TRUE).status = 403
        /\ \A id \in TplIds : delete_permission_template_response(actor, id, TRUE).status = 403
        /\ \A id \in TplIds, us \in RoleUserIds, overwrite \in BOOLEAN :
             apply_template_to_users_response(actor, id, us, overwrite, TRUE).status = 403
        /\ \A site \in SiteNameInputs :
             update_system_settings_response(actor, site, <<>>, TRUE).status = 403

\* a step that is an administrative request of a non-admin
NonAdminRequest ==
    \E actor \in NonAdmins :
        \/ \E g \in RoleGrantRequests : grant_permission(actor, g[1], g[2], g[3], TRUE)
        \/ \E id \in PermIds : revoke_permission(actor, id, TRUE)
        \/ \E name \in {"t1", "t10"} :
             create_permission_template(actor, name, "d", <<KeyViewAll>>, TRUE)
        \/ \E id \in TplIds, name \in TplNameUpdates :
             update_permission_template(actor, id, name, <<>>, <<>>, TRUE)
        \/ \E id \in TplIds : delete_permission_template(actor, id, TRUE)
        \/ \E id \in TplIds, us \in RoleUserIds, overwrite \in BOOLEAN :
             apply_template_to_users(actor, id, us, overwrite, TRUE)
        \/ \E site \in SiteNameInputs : update_system_settings(actor, site, <<>>, TRUE)

\* the request of a non-admin leaves the grant store, the templates, the
\* settings and the audit log as they were
C30_NonAdminChangesNothing ==
    [][NonAdminRequest => UNCHANGED <<perms, templates, settings, audit>>]_vars

\* C30: a request of a non-admin principal to grant_permission,
\* revoke_permission, create, update, delete or apply of a permission
\* template, or update_system_settings is refused with a 403 and leaves the
\* grant store, the templates, the settings and the audit log unchanged.
C30_NonAdminRefused == [](C30_Refused403) /\ C30_NonAdminChangesNothing

\* the stores hold a grant, a template, the settings and audit entries, and a
\* department head and an employee ask to revoke the grant, to delete the
\* template and to change the settings: each request is answered 403
C30_Witness ==
    /\ settings # {}
    /\ Len(audit) > 0
    /\ \E p \in perms, t \in templates :
         /\ t.usage_count = 0
         /\ \A actor \in NonAdmins :
              /\ revoke_permission_response(actor, p.id, TRUE).status = 403
              /\ delete_permission_template_response(actor, t.id, TRUE).status = 403
              /\ update_system_settings_response(actor, <<"Portal">>, <<>>, TRUE).status = 403
         /\ revoke_permission_response("admin1", p.id, TRUE).status = 200
         /\ delete_permission_template_response("admin1", t.id, TRUE).status = 200

====
